---- MODULE Spec2Model ----
(***************************************************************************)
(* Reliable-send connection manager (MeshtasticSender) of                  *)
(* src/meshtastic_sender.py, with the Device Link (the meshtastic          *)
(* TCPInterface), its receive thread and its heartbeat timer as the        *)
(* environment.                                                            *)
(*                                                                         *)
(* One caller thread runs connect(), send_message() and close(); its       *)
(* position is pc.  The receive thread and the heartbeat timer of every    *)
(* link interleave with it.                                                *)
(*                                                                         *)
(* Time is counted only inside _wait_for_queue_status, in ticks: the       *)
(* confirmation timeout is TimeoutTicks and one packet_queue.get() poll    *)
(* lasts PollTicks (QUEUE_STATUS_TIMEOUT = 15 s and 0.5 s in the source,   *)
(* scaled down).  The sleeps of connect() do not bear on any property and  *)
(* are not timed.  The channel index and the message text never influence  *)
(* the control flow of the sender and are left out.                        *)
(*                                                                         *)
(* The Device Link is opaque.  A link is numbered by its construction; its *)
(* localNode is fixed when it is constructed (the library sets it in the   *)
(* constructor and never clears it).  sendText may return a packet with    *)
(* any id, return nothing or raise, on an open link as on a closed one.    *)
(* The handlers installed on a link may be called at any time, also after  *)
(* the sender has moved on to another link: an old link that was never     *)
(* closed keeps receiving, and a callback may be in flight at teardown.    *)
(*                                                                         *)
(* Spec, SpecRetry, SpecHb and SpecConnect take one pass of the attempt     *)
(* loop of connect() and one close() as single steps; there a construction *)
(* thread abandoned at its timeout never ends.  SpecLate takes connect()   *)
(* statement by statement together with the abandoned threads, SpecClose   *)
(* takes close() statement by statement together with the heartbeats.      *)
(* SpecErr adds the failures a link can answer a call with, SpecRx the     *)
(* exceptions met inside the receive interceptors.                         *)
(*                                                                         *)
(* cli is main() of one of the command-line tools send_channel_message.py, *)
(* generate_haiku_and_send.py and send_channel_message_mqtt.py.  SpecCli   *)
(* takes the calls on the sender as single steps with either result;       *)
(* SpecHaiku runs the haiku tool on the sender itself.  In the other       *)
(* specifications no tool is started and cli stays as it is.               *)
(*                                                                         *)
(* The remaining specifications each take one component on its own:        *)
(* SpecSendHaiku send_haiku, SpecHistory the haiku history, SpecGenerate   *)
(* generate_haiku, SpecValidate validate_and_clean_haiku (a haiku is a     *)
(* sequence over Chars, one character per class that the function tells    *)
(* apart), SpecSignal the signal readings of mqtt_packet_tracker.py and    *)
(* packet_sender_inference.py, SpecTracker process_packet, fetch_node_info *)
(* and display_local_nodes of the tracker, SpecMqtt the sender of          *)
(* send_channel_message_mqtt.py with the callbacks of its paho clients,    *)
(* SpecListen listen_with_reconnect of listen_packets.py.                  *)
(*                                                                         *)
(* Kinds of errors raised by sendText: "abort" ConnectionAbortedError,     *)
(* "reset" ConnectionResetError, "hostabort" OSError with winerror 10053,  *)
(* "oserror" any other OSError, "generic" any other Exception.             *)
(***************************************************************************)
EXTENDS Integers, Sequences, FiniteSets, TLC

\* ---------------------------------------------------------------- constants
RETRY_COUNT == 3

\* ------------------------------------------------------------------- bounds
\* MaxLinks, MaxEpochs: links ever constructed (SpecRetry; Spec and SpecHb).
\* MaxQueue: records held by packet_queue.  TimeoutTicks, PollTicks: the
\* confirmation timeout and one poll of the wait loop, in ticks.
MaxLinks == 3
MaxEpochs == 2
MaxQueue == 1
TimeoutTicks == 3
PollTicks == 2
\* passes of a tool's repeat loop
MaxIter == 1001
\* messages handed to send_haiku in one run
MaxMessages == 2

PacketIds == {7, 42}
ResCodes == {0, 5}
SendErrorKinds == {"abort", "reset", "hostabort", "oserror", "generic"}
ReconnectKinds == {"abort", "reset", "hostabort"}
ConnectOutcomes == {"ok", "nolocal", "timeout", "error"}
BuildKinds == {"link", "nolocal", "error"}
\* sequence = (sequence + 1) % 1000
SequenceModulus == 1000
\* send_haiku: max_retries
MaxSendTries == 3
Tools == {"tcp", "haiku", "mqtt"}
\* values of the channel argument and of --repeat-every
ChannelArgs == {-1, 0, 1, 7, 8}
RepeatArgs == {-1, 0, 1}
\* if len(recent_haikus) > 20: recent_haikus = recent_haikus[-20:]
MaxHistory == 20
\* haikus are numbered 1 .. MaxHaiku; 0 is the empty string
MaxHaiku == 22
\* add_haiku_to_history calls in one run
MaxAdds == 2
\* largest --llm-retries tried; the smallest is -1
MaxRetryArg == 6
\* length of the strings handed to validate_and_clean_haiku
MaxLen == 4
\* Keep only last 10 readings
MaxReadings == 10
\* signal updates in one run
MaxUpdates == 12
\* nodes that signal readings are supplied for
SignalNodes == {1, 2}
\* if len(signal_stats) > 100
MaxKept == 100
\* the node that is watched, and the first of the other nodes
Watched == 1
FirstOther == 3
\* other nodes heard of in one run
MaxOthers == 100
\* packets and node-info fetches about the watched node in one run
MaxWatchedEvents == 3
\* the watched node is heard of when the count of other nodes heard of so
\* far is a multiple of this
WatchEvery == 25
\* paho clients one MQTTMeshtasticSender creates in one run
MaxClients == 2
\* polls of self.connected before connect() gives up (timeout / 0.1 s)
MaxPolls == 2
\* messages published in one run
MaxPublishes == 2
\* max_attempts of connect_with_retry with reconnection enabled
ManyAttempts == 999999
\* --reconnect-delay values of a run
DelayArgs == {-1, 0, 5}
\* TCPInterface constructions in one run of the listener
MaxBuilt == 3
\* connection errors logged by the library in one run
MaxErrors == 2

VARIABLES
    pc,                      \* position of the caller thread
    interface,               \* self.interface: 0 is None, else a link number
    links,                   \* the Device Links constructed so far
    nextLink,                \* number of the next link to be constructed
    packet_queue,            \* self.packet_queue
    sender_closed,           \* self._closed
    original_send_heartbeat, \* self._original_send_heartbeat: 0 is None,
                             \* else the link whose bound method it holds
    attempt,                 \* connect(): attempt
    connRet,                 \* who called connect(): "top", "recover", "retry"
    retry,                   \* send_message(): retry
    send_attempt,            \* send_message(): send_attempt
    max_send_retries,        \* send_message(): max_send_retries
    no_wait,                 \* send_message(): no_wait
    packet_id,               \* send_message(): packet_id
    waited,                  \* time.time() - start_time, in ticks
    pollWaited,              \* ticks spent in the current packet_queue.get()
    call,                    \* history of the send_message call in progress
    pendingSend,             \* history: packet ids sent and not yet resolved
    lastHb,                  \* history: the last heartbeat call observed
    result,                  \* connect(): the dict the name result is bound to
    late,                    \* construction threads abandoned by the connect()
                             \* call in progress and still running
    closeAt,                 \* close(): the statement to run next, 0 outside
    own,                     \* history: what the attempt's own thread stored
    closeHist,               \* history of the close() call in progress or last
    lastRx,                  \* history: the last run of a receive interceptor
    cli,                     \* main() of a command-line tool: its arguments,
                             \* its locals and its position
    sh,                      \* send_haiku(): its locals and its history
    recent_haikus,           \* recent_haikus: the haikus of the history, oldest first
    lastAdd,                 \* history: the last add_haiku_to_history call
    gen,                     \* generate_haiku(): its arguments, locals and history
    haiku_in,                \* validate_and_clean_haiku(): its argument, as characters
    haiku_out,               \* validate_and_clean_haiku(): what it returned
    signal_stats,            \* tracker: signal_stats, its entries in insertion order
    signal_profiles,         \* inference: self.signal_profiles
    supplied,                \* history: signal updates made, readings supplied
    node_info,               \* tracker: node_info, of the watched node
    tracked,                 \* history: what the tracker was fed
    mq,                      \* MQTTMeshtasticSender and its paho clients
    lp                       \* listen_packets.py: listen_with_reconnect

linkVars == <<interface, links, nextLink, sender_closed,
              original_send_heartbeat>>
connLocals == <<attempt, connRet>>
sendLocals == <<retry, send_attempt, max_send_retries, no_wait, packet_id>>
waitVars == <<waited, pollWaited>>
histVars == <<call, pendingSend, lastHb>>
\* State of the parts of the tools that are exercised on their own.
toolVars == <<sh, recent_haikus, lastAdd, gen, haiku_in, haiku_out, signal_stats, signal_profiles, supplied, node_info, tracked, mq, lp>>
\* State of the statement-by-statement views of connect() and close().
stepVars == <<result, late, closeAt, own, closeHist, lastRx, cli, toolVars>>
\* The sender and its links, as opposed to the tool that drives them.
coreVars == <<pc, linkVars, packet_queue, connLocals, sendLocals, waitVars,
              histVars, result, late, closeAt, own, closeHist, lastRx>>
vars == <<pc, linkVars, packet_queue, connLocals, sendLocals, waitVars, histVars,
          stepVars>>

\* ------------------------------------------------------------------ helpers
NoLink == [localNode |-> FALSE, closed |-> FALSE, handlers |-> FALSE, patched |-> FALSE]

NoItem == [present |-> FALSE, id |-> 0, res |-> 0, stale |-> FALSE]

\* History of a heartbeat call: connected, connect() had succeeded on the
\* link; afterClose, close() had been called on it; original, the call
\* reached the link's original sendHeartbeat.
NoHb == [fired |-> FALSE, connected |-> FALSE, afterClose |-> FALSE,
         original |-> FALSE]

\* History of one send_message call:
\*   sends, closes, connects  sendText calls, close() calls and successful
\*                            connect() calls made by the call so far
\*   connFail                 a connect() made by the call returned False
\*   allReset                 every sendText so far raised ConnectionResetError
\*   prevKind                 what the latest sendText raised ("none": nothing;
\*                            "nopacket": nothing, and it returned no packet)
\*   gapCloses, gapConnects   close() calls and successful connect() calls
\*                            since the latest sendText
\*   seen                     a record for packet_id was dequeued: "ok", "fail"
\*   otherId                  a queue-status record for another id was dequeued
\*   resolver                 the record that ended the wait
\*   timedOut, elapsed        the wait loop ran out; ticks waited by then
\*   reason, result           why send_message returned, and what
NoCall ==
    [sends |-> 0, closes |-> 0, connects |-> 0, connFail |-> FALSE,
     allReset |-> TRUE, prevKind |-> "none", gapCloses |-> 0, gapConnects |-> 0,
     seen |-> "none", otherId |-> FALSE, resolver |-> NoItem,
     timedOut |-> FALSE, elapsed |-> 0, reason |-> "none", result |-> FALSE]

\* result = {}: interface 0, no "interface" key; error, an "error" key.
NoResult == [interface |-> 0, error |-> FALSE]

\* History of one close() call: touched, it has operated on the link (timer
\* cancel or link close); released, it has called the link's close();
\* timerErr, linkErr, that operation raised; raised, close() let an
\* exception out; done, close() is over.
NoClose == [touched |-> FALSE, released |-> FALSE, timerErr |-> FALSE,
            linkErr |-> FALSE, raised |-> FALSE, done |-> FALSE]

\* History of one run of a receive interceptor: put, it put a record into
\* the channel; origCalls, how often it called the link's original handler;
\* raisedOut, it let an exception out into the receive thread.
NoRx == [fired |-> FALSE, kind |-> "none", put |-> FALSE, origCalls |-> 0,
         raisedOut |-> FALSE]

\* main() before it has read its arguments.  hasChannel, channel: the
\* channel argument (hasChannel FALSE: --channel not given, None); node:
\* --node-id given; rep: --repeat-every, 0 standing for None too; looping:
\* the while True loop was entered; iter: passes of the loop begun;
\* sendTry: the attempt of send_haiku; connectCalled, sendCalled: connect()
\* and a send of the core were called; chanSent, sentChannel: a channel
\* send was called, and the channel index it was given; endedBy: what ended
\* the run.
NoCli ==
    [tool |-> "none", pc |-> "start", hasChannel |-> FALSE, channel |-> 0,
     node |-> FALSE, rep |-> 0, looping |-> FALSE, sequence |-> 0,
     current_sequence |-> 0, iter |-> 0, sendTry |-> 0,
     connectCalled |-> FALSE, sendCalled |-> FALSE, chanSent |-> FALSE,
     sentChannel |-> 0, endedBy |-> "none"]

\* send_haiku before its first call.  msgs: calls of send_haiku so far;
\* channel: its channel argument, handed on to send_message;
\* attempt: the loop variable; outcomes: what each sender.send_message of
\* this call did ("ok" returned True, "fail" returned False, "raise" raised
\* an Exception); returned, ret: send_haiku has returned, and what;
\* escaped: it let an exception out.
NoSendHaiku ==
    [pc |-> "idle", msgs |-> 0, channel |-> 0, attempt |-> 0, outcomes |-> <<>>,
     returned |-> FALSE, ret |-> FALSE, escaped |-> FALSE]

\* No add_haiku_to_history call yet.  loaded: load_haiku_history has run;
\* adds: calls so far; haiku, before: the argument of the last call and
\* recent_haikus when it was made.
NoAdd == [loaded |-> FALSE, adds |-> 0, haiku |-> 0, before |-> <<>>]

\* generate_haiku before it is called.  arg: the llm_retries argument;
\* llm_retries: its clamped value; outcomes: what each request did ("ok",
\* "transient" a Timeout or ConnectionError, "fatal" any other Exception);
\* returned, haiku: generate_haiku has returned, and whether with a haiku
\* (FALSE: None).
NoGen ==
    [pc |-> "idle", arg |-> 0, llm_retries |-> 0, attempt |-> 0, backoff |-> 0,
     outcomes |-> <<>>, returned |-> FALSE, haiku |-> FALSE]

\* validate_and_clean_haiku has not returned.
NoOutput == [done |-> FALSE, value |-> <<>>]

\* signal_stats[node_id] as update_signal_stats creates it.
NoEntry(id) ==
    [id |-> id, rssi |-> <<>>, snr |-> <<>>, is_local |-> FALSE,
     confirmed_1hop |-> FALSE]

\* signal_profiles without an entry for a node, and the entry as created.
NoProfile == [present |-> FALSE, snr |-> <<>>, rssi |-> <<>>]

\* Nothing supplied yet.  program: which of the two programs is running,
\* "tracker" or "inference"; updates: update calls so far; of a node and a
\* list, the number of non-null readings supplied for it to the tracker
\* ("stats") and to the inference module ("profiles").  The k-th reading
\* supplied for a list has the value k.
NoSupplied ==
    [program |-> "none", updates |-> 0,
     stats |-> [n \in SignalNodes |-> [rssi |-> 0, snr |-> 0]],
     profiles |-> [n \in SignalNodes |-> [rssi |-> 0, snr |-> 0]]]

\* node_info has no entry for the watched node; with an entry, whether it
\* holds is_local and confirmed_1hop set to True.
NoNodeInfo == [present |-> FALSE, is_local |-> FALSE, confirmed_1hop |-> FALSE]

\* Nothing fed to the tracker yet.  confirmed: process_packet has confirmed
\* the watched node as a 1-hop neighbour; others: other nodes heard of so
\* far, numbered from FirstOther in the order they were first heard;
\* events: packets and fetches about the watched node.
NoTracked == [confirmed |-> FALSE, others |-> 0, events |-> 0]

\* MQTTMeshtasticSender.__init__: client None (0), connected False.  loops:
\* the clients whose network loop thread runs; link: per client, "none"
\* before client.connect(), "pending" until the broker's answer, then "up"
\* or "down"; pc, polls: position in connect(); op, ret, closing: the last
\* method that returned, what it returned, and the client close() found.
NoMqtt ==
    [client |-> 0, connected |-> FALSE, loops |-> {}, made |-> 0,
     link |-> [c \in 1 .. MaxClients |-> "none"],
     pc |-> "idle", polls |-> 0, published |-> 0,
     op |-> "none", ret |-> FALSE, closing |-> 0]

\* The listener before listen_with_reconnect runs.  interface: 0 is None;
\* flag: connection_error_detected; built: interfaces constructed so far;
\* closed: the interfaces close() was called on; handled: connection errors
\* the main loop caught; retried: entries of connect_with_retry that
\* followed one; logged: errors the logging handler saw.
NoListener ==
    [pc |-> "args", no_reconnect |-> FALSE, reconnect_delay |-> 0,
     interface |-> 0, connection_lost |-> FALSE, flag |-> FALSE,
     attempt |-> 0, built |-> 0, closed |-> {}, handled |-> 0, retried |-> 0,
     logged |-> 0, endedBy |-> "none"]

Built == 1 .. (nextLink - 1)

\* Once self.interface is rebound to a new link, every record already in the
\* channel dates from an earlier connection.
MarkStale(q) == [i \in DOMAIN q |-> [q[i] EXCEPT !.stale = TRUE]]

\* ---------------------------------------------------------- pure code parts
\* _check_connection_health
HealthOkAnyLink(i) == i # 0

HealthOk(i) == i # 0 /\ links[i].localNode

\* max_send_retries = 2 if retry else 0
MaxSendRetriesOne(rt) == IF rt THEN 1 ELSE 0

MaxSendRetries(rt) == IF rt THEN 2 ELSE 0

\* if no_wait: return True
SkipAlways(nw) == TRUE

SkipNever(nw) == FALSE

SkipConfirmation(nw) == nw

\* The except clauses of send_message: what follows a sendText that raised
\* kind in attempt sa.
SendErrorNoReconnect(kind, sa, max) ==
    IF kind = "oserror" THEN "fail"
    ELSE IF sa >= max THEN "fail"
    ELSE "retry"

SendErrorOsRetried(kind, sa, max) ==
    IF sa >= max THEN "fail"
    ELSE IF kind = "generic" THEN "retry" ELSE "reconnect"

SendErrorAction(kind, sa, max) ==
    IF kind = "oserror" THEN "fail"
    ELSE IF sa >= max THEN "fail"
    ELSE IF kind = "generic" THEN "retry" ELSE "reconnect"

\* The body of the wait loop for one dequeued item.
VerdictAnyId(item, pid) ==
    IF item.kind = "queueStatus"
    THEN (IF item.res = 0 THEN "success" ELSE "failure")
    ELSE "continue"

VerdictIgnoreFailure(item, pid) ==
    IF item.kind = "queueStatus" /\ item.id = pid /\ item.res = 0
    THEN "success" ELSE "continue"

QueueStatusVerdict(item, pid) ==
    IF item.kind = "queueStatus" /\ item.id = pid
    THEN (IF item.res = 0 THEN "success" ELSE "failure")
    ELSE "continue"

\* while time.time() - start_time < QUEUE_STATUS_TIMEOUT
WaitLoopCondEarly(w) == w < TimeoutTicks - 1

WaitLoopCond(w) == w < TimeoutTicks

\* packet_queue.get(timeout=0.5): may the blocked get() wait another tick
PollBlocked(p) == p < PollTicks

\* return self._wait_for_queue_status(packet_id)
AfterWaitRetry(ok, sa, max) == IF ~ok /\ sa < max THEN "retry" ELSE "return"

AfterWait(ok, sa, max) == "return"

\* attempt < RETRY_COUNT
ConnectRetryOneMore(a) == a < RETRY_COUNT + 1

ConnectRetry(a) == a < RETRY_COUNT

\* close(): the link-level close of self.interface, and self._closed
ClosedLinks(i) ==
    IF i = 0 THEN links ELSE [links EXCEPT ![i].closed = TRUE]

ClosedFlag(i) == IF i = 0 THEN sender_closed ELSE TRUE

CallClosed(c) ==
    [c EXCEPT !.closes = @ + 1, !.gapCloses = @ + 1]

\* ------------------------------------------------------------------- Init
Init ==
    /\ pc = "idle"
    /\ interface = 0
    /\ links = [l \in 1 .. MaxLinks |-> NoLink]
    /\ nextLink = 1
    /\ packet_queue = <<>>
    /\ sender_closed = FALSE
    /\ original_send_heartbeat = 0
    /\ attempt = 0
    /\ connRet = "none"
    /\ retry = FALSE
    /\ send_attempt = 0
    /\ max_send_retries = 0
    /\ no_wait = FALSE
    /\ packet_id = 0
    /\ waited = 0
    /\ pollWaited = 0
    /\ call = NoCall
    /\ pendingSend = {}
    /\ lastHb = NoHb
    /\ result = NoResult
    /\ late = 0
    /\ closeAt = 0
    /\ own = NoResult
    /\ closeHist = NoClose
    /\ lastRx = NoRx
    /\ cli = NoCli
    /\ sh = NoSendHaiku
    /\ recent_haikus = <<>>
    /\ lastAdd = NoAdd
    /\ gen = NoGen
    /\ haiku_in = <<>>
    /\ haiku_out = NoOutput
    /\ signal_stats = <<>>
    /\ signal_profiles = [n \in SignalNodes |-> NoProfile]
    /\ supplied = NoSupplied
    /\ node_info = NoNodeInfo
    /\ tracked = NoTracked
    /\ mq = NoMqtt
    /\ lp = NoListener

\* --------------------------------------------------- returns of the calls
\* send_message returns val
ReturnSend(c, val, why) ==
    /\ pc' = "returned"
    /\ call' = [c EXCEPT !.reason = why, !.result = val]
    /\ UNCHANGED sendLocals

\* connect() returns val to its caller
ConnectReturns(val) ==
    LET c == [call EXCEPT !.connects = IF val THEN @ + 1 ELSE @,
                          !.gapConnects = IF val THEN @ + 1 ELSE @,
                          !.connFail = @ \/ ~val]
    IN  /\ attempt' = 0
        /\ connRet' = "none"
        /\ CASE connRet = "recover" ->
                  IF val
                  THEN /\ pc' = "s_send"
                       /\ call' = c
                       /\ UNCHANGED sendLocals
                  ELSE ReturnSend(c, FALSE, "recover_fail")
             [] connRet = "retry" ->
                  IF val
                  THEN /\ pc' = "s_health"
                       /\ send_attempt' = send_attempt + 1
                       /\ call' = c
                       /\ UNCHANGED <<retry, max_send_retries, no_wait, packet_id>>
                  ELSE ReturnSend(c, FALSE, "reconnect_fail")
             [] OTHER ->
                  /\ pc' = "idle"
                  /\ UNCHANGED <<call, sendLocals>>

StartConnect(ret) ==
    /\ pc' = "c_attempt"
    /\ attempt' = 1
    /\ connRet' = ret

\* ------------------------------------------------------------ caller: calls
\* sender.connect()
CallConnect ==
    /\ pc = "idle"
    /\ StartConnect("top")
    /\ UNCHANGED <<linkVars, packet_queue, sendLocals, waitVars, histVars>>
    /\ UNCHANGED stepVars

\* sender.close()
CallClose ==
    /\ pc = "idle"
    /\ interface # 0
    /\ links' = ClosedLinks(interface)
    /\ sender_closed' = ClosedFlag(interface)
    /\ UNCHANGED <<pc, interface, nextLink, original_send_heartbeat,
                   packet_queue, connLocals, sendLocals, waitVars, histVars>>
    /\ UNCHANGED stepVars

\* sender.send_message(channel, message, no_wait=nw, retry=rt)
CallSendMessage(nw, rt) ==
    /\ pc = "idle"
    /\ retry' = rt
    /\ send_attempt' = 0
    /\ max_send_retries' = MaxSendRetries(rt)
    /\ no_wait' = nw
    /\ packet_id' = 0
    /\ IF interface = 0
       THEN /\ pc' = "returned"
            /\ call' = [NoCall EXCEPT !.reason = "no_interface"]
       ELSE /\ pc' = "s_health"
            /\ call' = NoCall
    /\ UNCHANGED <<linkVars, packet_queue, connLocals, waitVars,
                   pendingSend, lastHb>>
    /\ UNCHANGED stepVars

\* The caller has the result of send_message in hand; the call is over.
CallerResumes ==
    /\ pc = "returned"
    /\ pc' = "idle"
    /\ call' = NoCall
    /\ retry' = FALSE
    /\ send_attempt' = 0
    /\ max_send_retries' = 0
    /\ no_wait' = FALSE
    /\ packet_id' = 0
    /\ UNCHANGED <<linkVars, packet_queue, connLocals, waitVars,
                   pendingSend, lastHb>>
    /\ UNCHANGED stepVars

\* ----------------------------------------------------------- connect()
\* The except clauses of connect() (lines 141-183): TimeoutError, the
\* transport errors re-raised from the construction thread, and any other
\* Exception of the try body.  Does one of them catch a failed attempt?
ConnectCatchesNoGeneric(outcome) == outcome \in {"timeout", "error"}

ConnectCatches(outcome) == outcome \in {"timeout", "error", "installfail"}

\* One pass of the attempt loop of connect().  outcome: "ok" the link is
\* built, has a local node and takes the handlers; "nolocal" it is built
\* without a local node; "timeout" the construction thread outlives
\* connect_timeout; "error" the construction raises an Exception;
\* "installfail" the link is built with a local node and reading its
\* handlers (lines 85-86) raises.  cap bounds the links ever constructed.
ConnectAttempt(outcome, cap) ==
    /\ pc = "c_attempt"
    /\ outcome \in {"ok", "nolocal", "installfail"} => nextLink <= cap
    /\ LET l == nextLink
           builds == outcome \in {"ok", "nolocal", "installfail"}
           patch == outcome = "ok" /\ original_send_heartbeat = 0
           raised == outcome \in {"timeout", "error", "installfail"}
           done == outcome \in {"ok", "nolocal"} \/ ~ConnectRetry(attempt)
       IN  /\ interface' = IF builds THEN l ELSE interface
           /\ nextLink' = IF builds THEN l + 1 ELSE nextLink
           /\ links' = IF builds
                       THEN [links EXCEPT ![l] =
                               [localNode |-> outcome # "nolocal",
                                closed |-> FALSE,
                                handlers |-> outcome = "ok",
                                patched |-> patch]]
                       ELSE links
           /\ original_send_heartbeat' =
                 IF patch THEN l ELSE original_send_heartbeat
           /\ packet_queue' = IF builds THEN MarkStale(packet_queue) ELSE packet_queue
           /\ IF raised /\ ~ConnectCatches(outcome)
              THEN /\ pc' = "escaped"
                   /\ attempt' = 0
                   /\ connRet' = "none"
                   /\ UNCHANGED <<call, sendLocals>>
              ELSE IF done
              THEN ConnectReturns(outcome = "ok")
              ELSE /\ attempt' = attempt + 1
                   /\ UNCHANGED <<pc, connRet, call, sendLocals>>
    /\ UNCHANGED <<sender_closed, waitVars, pendingSend, lastHb>>
    /\ UNCHANGED stepVars

\* ------------------------------------- connect(), statement by statement
\* The attempt loop as the construction threads see it.  An attempt that
\* timed out leaves its thread running.  _build_interface is a closure over
\* the variable result of connect(), not over the dict made for its attempt:
\* whenever a thread ends, it stores into the dict result is bound to at that
\* moment.  ConnectAttempt is one pass of this loop when no abandoned thread
\* ends during the pass.

\* Lines 68-77: what the caller reads out of result after the join.
AttemptOutcome(r) ==
    IF r.error THEN [raised |-> TRUE, link |-> 0]
    ELSE [raised |-> r.interface = 0, link |-> r.interface]

\* Lines 53-57: what a construction thread stores when it ends, having built
\* link l with a local node ("link"), without one ("nolocal"), or having
\* caught an exception ("error").
Stored(r, kind, l) ==
    IF kind = "error" THEN [r EXCEPT !.error = TRUE]
    ELSE [r EXCEPT !.interface = l]

BuiltLinks(kind, l) ==
    IF kind = "error" THEN links
    ELSE [links EXCEPT ![l] = [localNode |-> kind = "link", closed |-> FALSE,
                               handlers |-> FALSE, patched |-> FALSE]]

\* An except clause of connect() has caught the failure of this attempt.
AttemptFailed ==
    IF ConnectRetry(attempt)
    THEN /\ pc' = "c_attempt"
         /\ attempt' = attempt + 1
         /\ UNCHANGED <<connRet, call, sendLocals>>
    ELSE ConnectReturns(FALSE)

\* result = {}; t.start()
AttemptStart ==
    /\ pc = "c_attempt"
    /\ pc' = "c_join"
    /\ result' = NoResult
    /\ own' = NoResult
    /\ late' = IF attempt = 1 THEN 0 ELSE late
    /\ UNCHANGED <<linkVars, packet_queue, connLocals, sendLocals, waitVars,
                   histVars, closeAt, closeHist, lastRx, cli, toolVars>>

\* The thread of this attempt ends before t.join(connect_timeout) returns.
BuildDone(kind, cap) ==
    /\ pc = "c_join"
    /\ kind # "error" => nextLink <= cap
    /\ pc' = "c_check"
    /\ result' = Stored(result, kind, nextLink)
    /\ own' = Stored(own, kind, nextLink)
    /\ links' = BuiltLinks(kind, nextLink)
    /\ nextLink' = IF kind = "error" THEN nextLink ELSE nextLink + 1
    /\ UNCHANGED <<interface, sender_closed, original_send_heartbeat,
                   packet_queue, connLocals, sendLocals, waitVars, histVars,
                   late, closeAt, closeHist, lastRx, cli, toolVars>>

\* t.is_alive() after the join: the attempt is abandoned, its thread runs on.
JoinTimeout ==
    /\ pc = "c_join"
    /\ late' = late + 1
    /\ AttemptFailed
    /\ UNCHANGED <<linkVars, packet_queue, waitVars, pendingSend, lastHb,
                   result, closeAt, own, closeHist, lastRx, cli, toolVars>>

\* Lines 68-140: the caller reads result and goes on with what it finds.
AttemptCheck ==
    /\ pc = "c_check"
    /\ LET o == AttemptOutcome(result)
           l == o.link
           patch == original_send_heartbeat = 0
       IN  IF o.raised
           THEN /\ AttemptFailed
                /\ UNCHANGED <<linkVars, packet_queue>>
           ELSE /\ interface' = l
                /\ packet_queue' = MarkStale(packet_queue)
                /\ IF links[l].localNode
                   THEN /\ links' = [links EXCEPT ![l].handlers = TRUE,
                                                  ![l].patched = patch]
                        /\ original_send_heartbeat' =
                              IF patch THEN l ELSE original_send_heartbeat
                        /\ ConnectReturns(TRUE)
                   ELSE /\ UNCHANGED <<links, original_send_heartbeat>>
                        /\ ConnectReturns(FALSE)
                /\ UNCHANGED <<nextLink, sender_closed>>
    /\ UNCHANGED <<waitVars, pendingSend, lastHb, stepVars>>

\* An abandoned construction thread ends.
LateBuild(kind, cap) ==
    /\ late > 0
    /\ kind # "error" => nextLink <= cap
    /\ late' = late - 1
    /\ result' = Stored(result, kind, nextLink)
    /\ links' = BuiltLinks(kind, nextLink)
    /\ nextLink' = IF kind = "error" THEN nextLink ELSE nextLink + 1
    /\ UNCHANGED <<pc, interface, sender_closed, original_send_heartbeat,
                   packet_queue, connLocals, sendLocals, waitVars, histVars,
                   closeAt, own, closeHist, lastRx, cli, toolVars>>

\* ---------------------------------------- close(), statement by statement
\* The statements of close() once it has found self.interface set, in the
\* order of the source: line 383, lines 385-391, lines 392-396.  CallClose is
\* the whole of it in one step.
CloseStepsFlagLast == <<"timer", "link", "flag">>

CloseSteps == <<"flag", "timer", "link">>

\* except Exception (lines 390 and 395): what becomes of an exception raised
\* by the link operation of a statement.
CloseOnErrorTimerEscapes(step) == IF step = "timer" THEN "raise" ELSE "swallow"

CloseOnError(step) == "swallow"

\* close() is called and finds self.interface set.
CloseEnter ==
    /\ pc = "idle"
    /\ interface # 0
    /\ pc' = "x_close"
    /\ closeAt' = 1
    /\ closeHist' = NoClose
    /\ UNCHANGED <<linkVars, packet_queue, connLocals, sendLocals, waitVars,
                   histVars, result, late, own, lastRx, cli, toolVars>>

\* The next statement of close().  raises: its link operation (the timer
\* lookup and cancel, the link's close()) raises an Exception.
CloseStep(raises) ==
    /\ pc = "x_close"
    /\ LET step == CloseSteps[closeAt]
           out == raises /\ CloseOnError(step) = "raise"
           over == out \/ closeAt = Len(CloseSteps)
       IN  /\ step = "flag" => ~raises
           /\ sender_closed' = IF step = "flag" THEN TRUE ELSE sender_closed
           /\ links' = IF step = "link" THEN ClosedLinks(interface) ELSE links
           /\ closeHist' = [closeHist EXCEPT
                   !.touched = @ \/ step # "flag",
                   !.released = @ \/ step = "link",
                   !.timerErr = @ \/ (step = "timer" /\ raises),
                   !.linkErr = @ \/ (step = "link" /\ raises),
                   !.raised = out,
                   !.done = over]
           /\ pc' = IF over THEN "idle" ELSE "x_close"
           /\ closeAt' = IF over THEN 0 ELSE closeAt + 1
    /\ UNCHANGED <<interface, nextLink, original_send_heartbeat, packet_queue,
                   connLocals, sendLocals, waitVars, histVars, result, late, own, lastRx, cli, toolVars>>

\* -------------------------------------------------------- send_message()
\* Top of the send loop: the health check and, if it fails, the recovery.
HealthCheck ==
    /\ pc = "s_health"
    /\ IF HealthOk(interface)
       THEN /\ pc' = "s_send"
            /\ UNCHANGED <<linkVars, connLocals, call>>
       ELSE /\ links' = ClosedLinks(interface)
            /\ sender_closed' = ClosedFlag(interface)
            /\ call' = CallClosed(call)
            /\ StartConnect("recover")
            /\ UNCHANGED <<interface, nextLink, original_send_heartbeat>>
    /\ UNCHANGED <<packet_queue, sendLocals, waitVars, pendingSend, lastHb>>
    /\ UNCHANGED stepVars

SentCall(kind) ==
    [call EXCEPT
        !.sends = @ + 1,
        !.allReset = @ /\ kind = "reset",
        !.prevKind = kind,
        !.gapCloses = 0,
        !.gapConnects = 0]

\* self.interface.sendText(...) returns a packet
SendTextPacket(id) ==
    /\ pc = "s_send"
    /\ pendingSend' = IF no_wait THEN pendingSend ELSE pendingSend \cup {id}
    /\ packet_id' = id
    /\ UNCHANGED <<retry, send_attempt, max_send_retries, no_wait>>
    /\ IF SkipConfirmation(no_wait)
       THEN /\ pc' = "returned"
            /\ call' = [SentCall("none") EXCEPT
                           !.reason = "no_wait", !.result = TRUE]
       ELSE /\ pc' = "s_wait"
            /\ call' = SentCall("none")
    /\ UNCHANGED <<linkVars, packet_queue, connLocals, waitVars, lastHb>>
    /\ UNCHANGED stepVars

\* if not sent_packet: return False
AfterNoPacketRetry(sa, max) == IF sa < max THEN "retry" ELSE "return"

AfterNoPacket(sa, max) == "return"

\* self.interface.sendText(...) returns nothing
SendTextNone ==
    /\ pc = "s_send"
    /\ IF AfterNoPacket(send_attempt, max_send_retries) = "return"
       THEN ReturnSend(SentCall("nopacket"), FALSE, "send_none")
       ELSE /\ pc' = "s_health"
            /\ send_attempt' = send_attempt + 1
            /\ call' = SentCall("nopacket")
            /\ UNCHANGED <<retry, max_send_retries, no_wait, packet_id>>
    /\ UNCHANGED <<linkVars, packet_queue, connLocals, waitVars,
                   pendingSend, lastHb>>
    /\ UNCHANGED stepVars

\* self.interface.sendText(...) raises
SendTextRaises(kind) ==
    /\ pc = "s_send"
    /\ LET c == SentCall(kind)
           act == SendErrorAction(kind, send_attempt, max_send_retries)
       IN  CASE act = "reconnect" ->
                  /\ links' = ClosedLinks(interface)
                  /\ sender_closed' = ClosedFlag(interface)
                  /\ call' = CallClosed(c)
                  /\ StartConnect("retry")
                  /\ UNCHANGED <<interface, nextLink, original_send_heartbeat,
                                 sendLocals>>
             [] act = "retry" ->
                  /\ pc' = "s_health"
                  /\ send_attempt' = send_attempt + 1
                  /\ call' = c
                  /\ UNCHANGED <<linkVars, connLocals, retry, max_send_retries,
                                 no_wait, packet_id>>
             [] OTHER ->
                  /\ ReturnSend(c, FALSE,
                                IF kind = "oserror" THEN "oserror" ELSE "exhausted")
                  /\ UNCHANGED <<linkVars, connLocals>>
    /\ UNCHANGED <<packet_queue, waitVars, pendingSend, lastHb>>
    /\ UNCHANGED stepVars

\* --------------------------------------------- _wait_for_queue_status()
\* _wait_for_queue_status returns ok, and send_message returns that value
WaitFinish(c, ok, why) ==
    /\ waited' = 0
    /\ pollWaited' = 0
    /\ pendingSend' = pendingSend \ {packet_id}
    /\ IF AfterWait(ok, send_attempt, max_send_retries) = "return"
       THEN ReturnSend(c, ok, why)
       ELSE /\ pc' = "s_health"
            /\ send_attempt' = send_attempt + 1
            /\ call' = c
            /\ UNCHANGED <<retry, max_send_retries, no_wait, packet_id>>

\* packet_queue.get() hands over an item, at once or while blocked
WaitDequeue ==
    /\ \/ pc = "s_wait" /\ WaitLoopCond(waited)
       \/ pc = "s_get"
    /\ packet_queue # <<>>
    /\ LET item == Head(packet_queue)
           v == QueueStatusVerdict(item, packet_id)
           match == item.kind = "queueStatus" /\ item.id = packet_id
           c == [call EXCEPT
                   !.seen = IF match
                            THEN (IF item.res = 0 THEN "ok" ELSE "fail")
                            ELSE @,
                   !.otherId = @ \/ (item.kind = "queueStatus" /\ ~match),
                   !.resolver = IF v = "continue" THEN @
                                ELSE [present |-> TRUE, id |-> item.id,
                                      res |-> item.res, stale |-> item.stale]]
       IN  /\ packet_queue' = Tail(packet_queue)
           /\ IF v = "continue"
              THEN /\ pc' = "s_wait"
                   /\ pollWaited' = 0
                   /\ call' = c
                   /\ UNCHANGED <<waited, sendLocals, pendingSend>>
              ELSE WaitFinish(c, v = "success",
                              IF v = "success" THEN "ack_ok" ELSE "ack_fail")
    /\ UNCHANGED <<linkVars, connLocals, lastHb>>
    /\ UNCHANGED stepVars

\* A tick passes while packet_queue.get(timeout=0.5) is blocked
WaitTick ==
    /\ \/ pc = "s_wait" /\ WaitLoopCond(waited)
       \/ pc = "s_get" /\ PollBlocked(pollWaited)
    /\ packet_queue = <<>>
    /\ pc' = "s_get"
    /\ waited' = waited + 1
    /\ pollWaited' = IF pc = "s_wait" THEN 1 ELSE pollWaited + 1
    /\ UNCHANGED <<linkVars, packet_queue, connLocals, sendLocals, histVars>>
    /\ UNCHANGED stepVars

\* queue.Empty: continue
WaitEmpty ==
    /\ pc = "s_get"
    /\ ~PollBlocked(pollWaited)
    /\ packet_queue = <<>>
    /\ pc' = "s_wait"
    /\ pollWaited' = 0
    /\ UNCHANGED <<linkVars, packet_queue, connLocals, sendLocals, waited, histVars>>
    /\ UNCHANGED stepVars

\* The loop condition fails: timeout
WaitDeadline ==
    /\ pc = "s_wait"
    /\ ~WaitLoopCond(waited)
    /\ WaitFinish([call EXCEPT !.timedOut = TRUE, !.elapsed = waited],
                  FALSE, "timeout")
    /\ UNCHANGED <<linkVars, packet_queue, connLocals, lastHb>>
    /\ UNCHANGED stepVars

\* ----------------------------------------------------------- environment
\* from_radio_handler of link l sees an envelope with a queueStatus field
ReceiveQueueStatus(l, id, res) ==
    /\ l \in Built
    /\ links[l].handlers
    /\ Len(packet_queue) < MaxQueue
    /\ packet_queue' = Append(packet_queue,
          [kind |-> "queueStatus", id |-> id, res |-> res,
           stale |-> l # interface])
    /\ UNCHANGED <<pc, linkVars, connLocals, sendLocals, waitVars, histVars>>
    /\ UNCHANGED stepVars

\* packet_handler of link l sees an application packet
ReceivePacket(l) ==
    /\ l \in Built
    /\ links[l].handlers
    /\ Len(packet_queue) < MaxQueue
    /\ packet_queue' = Append(packet_queue,
          [kind |-> "packet", id |-> 0, res |-> 0, stale |-> FALSE])
    /\ UNCHANGED <<pc, linkVars, connLocals, sendLocals, waitVars, histVars>>
    /\ UNCHANGED stepVars

\* The heartbeat timer of link l calls l.sendHeartbeat()
Heartbeat(l) ==
    /\ l \in Built
    /\ lastHb' = [fired |-> TRUE,
                  connected |-> links[l].handlers,
                  afterClose |-> links[l].closed,
                  original |-> IF links[l].patched THEN ~sender_closed ELSE TRUE]
    /\ UNCHANGED <<pc, linkVars, packet_queue, connLocals, sendLocals, waitVars,
                   call, pendingSend>>
    /\ UNCHANGED stepVars

\* ------------------------------------- the interceptors, with exceptions
\* One run of packet_handler (lines 88-94): put, then the original handler,
\* both inside one try.  putRaises: packet_queue.put raises; origRaises: the
\* link's original handler raises whenever it is called.
PacketHandlerRun(putRaises, origRaises) ==
    [put |-> ~putRaises,
     origCalls |-> IF putRaises THEN 0 ELSE 1,
     raisedOut |-> FALSE]

\* One run of from_radio_handler (lines 96-109): decode, put if the envelope
\* has a queueStatus field (hasQs), then the original handler, inside one
\* try; the except clause calls the original handler again, unguarded.
FromRadioHandlerRun(hasQs, decodeRaises, putRaises, origRaises) ==
    LET early == decodeRaises \/ (hasQs /\ putRaises)
        caught == early \/ origRaises
    IN  [put |-> ~decodeRaises /\ hasQs /\ ~putRaises,
         origCalls |-> (IF early THEN 0 ELSE 1) + (IF caught THEN 1 ELSE 0),
         raisedOut |-> caught /\ origRaises]

\* The receive thread of link l calls packet_handler.
PacketHandler(l, putRaises, origRaises) ==
    /\ l \in Built
    /\ links[l].handlers
    /\ LET r == PacketHandlerRun(putRaises, origRaises)
       IN  /\ r.put => Len(packet_queue) < MaxQueue
           /\ packet_queue' =
                 IF r.put
                 THEN Append(packet_queue,
                         [kind |-> "packet", id |-> 0, res |-> 0, stale |-> FALSE])
                 ELSE packet_queue
           /\ lastRx' = [fired |-> TRUE, kind |-> "packet", put |-> r.put,
                         origCalls |-> r.origCalls, raisedOut |-> r.raisedOut]
    /\ UNCHANGED <<pc, linkVars, connLocals, sendLocals, waitVars, histVars,
                   result, late, closeAt, own, closeHist, cli, toolVars>>

\* The receive thread of link l calls from_radio_handler.
FromRadioHandler(l, hasQs, id, res, decodeRaises, putRaises, origRaises) ==
    /\ l \in Built
    /\ links[l].handlers
    /\ LET r == FromRadioHandlerRun(hasQs, decodeRaises, putRaises, origRaises)
       IN  /\ r.put => Len(packet_queue) < MaxQueue
           /\ packet_queue' =
                 IF r.put
                 THEN Append(packet_queue,
                         [kind |-> "queueStatus", id |-> id, res |-> res,
                          stale |-> l # interface])
                 ELSE packet_queue
           /\ lastRx' = [fired |-> TRUE, kind |-> "fromRadio", put |-> r.put,
                         origCalls |-> r.origCalls, raisedOut |-> r.raisedOut]
    /\ UNCHANGED <<pc, linkVars, connLocals, sendLocals, waitVars, histVars,
                   result, late, closeAt, own, closeHist, cli, toolVars>>

\* --------------------------------------------- the command-line tools
\* send_channel_message.py ("tcp"), generate_haiku_and_send.py ("haiku")
\* and send_channel_message_mqtt.py ("mqtt").

\* if args.channel == 0: parser.error(...)
TcpRejectsNone(ch) == FALSE

TcpRejects(ch) == ch = 0

\* The four checks of the MQTT tool; args.channel is falsy when it is None
\* and when it is 0.
MqttRejects(hasCh, ch, node) ==
    LET given == hasCh /\ ch # 0
    IN  \/ ~given /\ ~node
        \/ given /\ node
        \/ given /\ ch = 0
        \/ given /\ (ch < 1 \/ ch > 7)

\* if args.repeat_every:
RepeatMode(rep) == rep # 0

\* time.sleep(args.repeat_every) raises ValueError for a negative length.
SleepRaises(rep) == rep < 0

NextSequenceNoWrap(s) == s + 1

NextSequence(s) == (s + 1) % SequenceModulus

\* The end of one pass of the haiku tool, or of its single shot.
AfterBody(c) ==
    IF c.looping THEN [c EXCEPT !.pc = "sleep"]
    ELSE [c EXCEPT !.pc = "exited", !.endedBy = "single"]

\* connect() returned ok.
AfterConnect(c, ok) ==
    LET c1 == [c EXCEPT !.connectCalled = TRUE]
    IN  IF c.tool = "haiku"
        THEN IF ok THEN [c1 EXCEPT !.pc = "send", !.sendTry = 1]
             ELSE AfterBody(c1)
        ELSE IF ~ok THEN [c1 EXCEPT !.pc = "exited", !.endedBy = "connectfail"]
        ELSE IF RepeatMode(c.rep) THEN [c1 EXCEPT !.pc = "top", !.looping = TRUE]
        ELSE [c1 EXCEPT !.pc = "send"]

\* The send of the core returned ok.
AfterSend(c, ok) ==
    LET c1 == [c EXCEPT !.sendCalled = TRUE,
                        !.chanSent = @ \/ ~c.node,
                        !.sentChannel = IF c.node THEN @ ELSE c.channel]
    IN  IF c.tool = "haiku"
        THEN IF ok \/ c.sendTry >= MaxSendTries
             THEN [c1 EXCEPT !.pc = "close"]
             ELSE [c1 EXCEPT !.sendTry = @ + 1]
        ELSE IF c.looping THEN [c1 EXCEPT !.pc = "sleep"]
        ELSE [c1 EXCEPT !.pc = "close", !.endedBy = "single"]

\* sender.close() returned.
AfterClose(c) ==
    IF c.tool = "haiku" /\ c.endedBy = "none" THEN AfterBody(c)
    ELSE [c EXCEPT !.pc = "exited"]

\* parser.parse_args()
Parse(tool, hasCh, ch, node, rep) ==
    /\ cli.pc = "start"
    /\ tool # "mqtt" => hasCh /\ ~node
    /\ ~hasCh => ch = 0
    /\ cli' = [cli EXCEPT !.tool = tool, !.pc = "validate", !.hasChannel = hasCh,
                          !.channel = ch, !.node = node, !.rep = rep]
    /\ UNCHANGED <<coreVars, toolVars>>

\* The validation of the arguments, up to the first call on a sender.
Validate ==
    /\ cli.pc = "validate"
    /\ LET rejected == IF cli.tool = "mqtt"
                       THEN MqttRejects(cli.hasChannel, cli.channel, cli.node)
                       ELSE TcpRejects(cli.channel)
       IN  cli' = IF rejected
                  THEN [cli EXCEPT !.pc = "rejected", !.endedBy = "reject"]
                  ELSE IF cli.tool # "haiku" THEN [cli EXCEPT !.pc = "connect"]
                  ELSE IF RepeatMode(cli.rep)
                  THEN [cli EXCEPT !.pc = "top", !.looping = TRUE]
                  ELSE [cli EXCEPT !.pc = "gen"]
    /\ UNCHANGED <<coreVars, toolVars>>

\* Top of a pass of while True; cap bounds the passes.
LoopTop(cap) ==
    /\ cli.pc = "top"
    /\ cli.iter < cap
    /\ cli' = [cli EXCEPT
                 !.iter = @ + 1,
                 !.current_sequence = IF cli.tool = "tcp" THEN @ ELSE cli.sequence,
                 !.sequence = IF cli.tool = "tcp" THEN @ ELSE NextSequence(@),
                 !.pc = IF cli.tool = "haiku" THEN "gen" ELSE "send"]
    /\ UNCHANGED <<coreVars, toolVars>>

\* haiku = generate_haiku(...); ok: it is not None
Generate(ok) ==
    /\ cli.pc = "gen"
    /\ cli' = IF ok THEN [cli EXCEPT !.pc = "connect"] ELSE AfterBody(cli)
    /\ UNCHANGED <<coreVars, toolVars>>

\* time.sleep(args.repeat_every)
Sleep ==
    /\ cli.pc = "sleep"
    /\ cli' = IF ~SleepRaises(cli.rep) THEN [cli EXCEPT !.pc = "top"]
              ELSE IF cli.tool = "haiku"
              THEN [cli EXCEPT !.pc = "exited", !.endedBy = "error"]
              ELSE [cli EXCEPT !.pc = "close", !.endedBy = "error"]
    /\ UNCHANGED <<coreVars, toolVars>>

\* KeyboardInterrupt inside the loop.
Interrupt ==
    /\ cli.looping
    /\ cli.endedBy = "none"
    /\ cli.pc \in {"top", "gen", "connect", "send", "sleep"}
    /\ cli' = IF cli.tool = "haiku" /\ cli.pc # "send"
              THEN [cli EXCEPT !.pc = "exited", !.endedBy = "interrupt"]
              ELSE [cli EXCEPT !.pc = "close", !.endedBy = "interrupt"]
    /\ UNCHANGED <<coreVars, toolVars>>

\* The calls on the sender, each taken as one step that returns ok.
CliConnect(ok) ==
    /\ cli.pc = "connect"
    /\ cli' = AfterConnect(cli, ok)
    /\ UNCHANGED <<coreVars, toolVars>>

CliSend(ok) ==
    /\ cli.pc = "send"
    /\ cli' = AfterSend(cli, ok)
    /\ UNCHANGED <<coreVars, toolVars>>

CliClose ==
    /\ cli.pc = "close"
    /\ cli' = AfterClose(cli)
    /\ UNCHANGED <<coreVars, toolVars>>

\* ------------------------------- the haiku tool on the sender itself
\* connect() returned True: lines 111-112 install the interceptors on the
\* path that returns True and on no other.
ConnectSucceeded == interface # 0 /\ links[interface].handlers

\* sender = MeshtasticSender(...); sender.connect(): a new sender, which
\* knows nothing of the links of the senders before it.
HaikuConnectCall ==
    /\ cli.tool = "haiku"
    /\ cli.pc = "connect"
    /\ pc = "idle"
    /\ cli' = [cli EXCEPT !.pc = "connecting"]
    /\ interface' = 0
    /\ sender_closed' = FALSE
    /\ original_send_heartbeat' = 0
    /\ packet_queue' = <<>>
    /\ call' = NoCall
    /\ pendingSend' = {}
    /\ lastHb' = NoHb
    /\ StartConnect("top")
    /\ UNCHANGED <<links, nextLink, sendLocals, waitVars, result, late,
                   closeAt, own, closeHist, lastRx, toolVars>>

\* if sender.connect():
HaikuConnectReturn ==
    /\ cli.pc = "connecting"
    /\ pc = "idle"
    /\ cli' = AfterConnect(cli, ConnectSucceeded)
    /\ UNCHANGED <<coreVars, toolVars>>

\* send_haiku: sender.send_message(channel, message)
HaikuSendCall ==
    /\ cli.tool = "haiku"
    /\ cli.pc = "send"
    /\ CallSendMessage(FALSE, TRUE)

\* send_haiku: send_message has returned
HaikuSendReturn ==
    /\ cli.pc = "send"
    /\ pc = "returned"
    /\ cli' = AfterSend(cli, call.result)
    /\ pc' = "idle"
    /\ call' = NoCall
    /\ retry' = FALSE
    /\ send_attempt' = 0
    /\ max_send_retries' = 0
    /\ no_wait' = FALSE
    /\ packet_id' = 0
    /\ UNCHANGED <<linkVars, packet_queue, connLocals, waitVars, pendingSend,
                   lastHb, result, late, closeAt, own, closeHist, lastRx, toolVars>>

\* finally: sender.close()
HaikuCloseCall ==
    /\ cli.tool = "haiku"
    /\ cli.pc = "close"
    /\ pc = "idle"
    /\ cli' = AfterClose(cli)
    /\ links' = ClosedLinks(interface)
    /\ sender_closed' = ClosedFlag(interface)
    /\ UNCHANGED <<pc, interface, nextLink, original_send_heartbeat,
                   packet_queue, connLocals, sendLocals, waitVars, histVars,
                   result, late, closeAt, own, closeHist, lastRx, toolVars>>

\* ----------------------------------------------------------- send_haiku
SendOutcomes == {"ok", "fail", "raise"}

\* What follows a sender.send_message that did outcome in pass attempt of
\* for attempt in range(1, max_retries + 1).
SendHaikuStepRaiseEscapes(att, outcome) ==
    IF outcome = "ok" THEN "return_true"
    ELSE IF outcome = "raise" THEN "escape"
    ELSE IF att < MaxSendTries THEN "sleep"
    ELSE "return_false"

SendHaikuStep(att, outcome) ==
    IF outcome = "ok" THEN "return_true"
    ELSE IF att < MaxSendTries THEN "sleep"
    ELSE "return_false"

\* send_haiku(sender, channel, message) is called.
SendHaikuCall(ch) ==
    /\ sh.pc = "idle"
    /\ sh.msgs < MaxMessages
    /\ sh' = [NoSendHaiku EXCEPT !.pc = "try", !.msgs = sh.msgs + 1,
                                 !.channel = ch, !.attempt = 1]
    /\ UNCHANGED <<coreVars, cli, recent_haikus, lastAdd, gen, haiku_in, haiku_out, signal_stats, signal_profiles, supplied, node_info, tracked, mq, lp>>

\* One pass of the loop body: sender.send_message(channel, message).
SendHaikuAttempt(outcome) ==
    /\ sh.pc = "try"
    /\ LET next == SendHaikuStep(sh.attempt, outcome)
           s1 == [sh EXCEPT !.outcomes = Append(@, outcome)]
       IN  sh' = CASE next = "return_true" ->
                        [s1 EXCEPT !.pc = "idle", !.returned = TRUE, !.ret = TRUE]
                   [] next = "return_false" ->
                        [s1 EXCEPT !.pc = "idle", !.returned = TRUE, !.ret = FALSE]
                   [] next = "escape" ->
                        [s1 EXCEPT !.pc = "idle", !.escaped = TRUE]
                   [] OTHER -> [s1 EXCEPT !.pc = "sleep"]
    /\ UNCHANGED <<coreVars, cli, recent_haikus, lastAdd, gen, haiku_in, haiku_out, signal_stats, signal_profiles, supplied, node_info, tracked, mq, lp>>

\* time.sleep(retry_delay), then the next pass of the for loop.
SendHaikuSleep ==
    /\ sh.pc = "sleep"
    /\ sh' = [sh EXCEPT !.pc = "try", !.attempt = @ + 1]
    /\ UNCHANGED <<coreVars, cli, recent_haikus, lastAdd, gen, haiku_in, haiku_out, signal_stats, signal_profiles, supplied, node_info, tracked, mq, lp>>

\* ------------------------------------------------------ the haiku history
\* The elements of a list.
Elems(q) == {q[i] : i \in DOMAIN q}

\* recent_haikus[-20:]
LastOf(q, n) == IF Len(q) <= n THEN q ELSE SubSeq(q, Len(q) - n + 1, Len(q))

\* add_haiku_to_history(haiku): the value of recent_haikus afterwards
AddedKeepOldest(hs, haiku) ==
    IF haiku # 0 /\ haiku \notin Elems(hs)
    THEN (IF Len(hs) + 1 > MaxHistory THEN SubSeq(Append(hs, haiku), 1, MaxHistory)
          ELSE Append(hs, haiku))
    ELSE hs

Added(hs, haiku) ==
    IF haiku # 0 /\ haiku \notin Elems(hs)
    THEN LastOf(Append(hs, haiku), MaxHistory)
    ELSE hs

\* load_haiku_history(): the file holds n distinct haikus.
LoadHistory(n) ==
    /\ ~lastAdd.loaded
    /\ recent_haikus' = [i \in 1 .. n |-> i]
    /\ lastAdd' = [lastAdd EXCEPT !.loaded = TRUE]
    /\ UNCHANGED <<coreVars, cli, sh, gen, haiku_in, haiku_out, signal_stats, signal_profiles, supplied, node_info, tracked, mq, lp>>

\* add_haiku_to_history(haiku)
AddHaikuToHistory(haiku) ==
    /\ lastAdd.loaded
    /\ lastAdd.adds < MaxAdds
    /\ recent_haikus' = Added(recent_haikus, haiku)
    /\ lastAdd' = [lastAdd EXCEPT !.adds = @ + 1, !.haiku = haiku,
                                  !.before = recent_haikus]
    /\ UNCHANGED <<coreVars, cli, sh, gen, haiku_in, haiku_out, signal_stats, signal_profiles, supplied, node_info, tracked, mq, lp>>

\* -------------------------------------------------------- generate_haiku
RequestOutcomes == {"ok", "transient", "fatal"}

\* llm_retries = max(0, min(llm_retries, 5))
ClampRetriesNone(n) == n

ClampRetries(n) ==
    LET m == IF n < 5 THEN n ELSE 5
    IN  IF m > 0 THEN m ELSE 0

\* What follows a request that did outcome, attempt already incremented.
AfterRequest(att, retries, outcome) ==
    IF outcome = "ok" THEN "return"
    ELSE IF outcome = "transient" /\ att <= retries THEN "sleep"
    ELSE "break"

\* generate_haiku(llm_timeout, llm_retries) is called; up to the loop.
GenerateCall(n) ==
    /\ gen.pc = "idle"
    /\ ~gen.returned
    /\ gen' = [NoGen EXCEPT !.pc = "loop", !.arg = n,
                            !.llm_retries = ClampRetries(n), !.backoff = 3]
    /\ UNCHANGED <<coreVars, cli, sh, recent_haikus, lastAdd, haiku_in, haiku_out, signal_stats, signal_profiles, supplied, node_info, tracked, mq, lp>>

\* while attempt <= llm_retries: one request and what follows it; when
\* the condition fails, the return None after the loop.
GenerateRequest(outcome) ==
    /\ gen.pc = "loop"
    /\ LET att == gen.attempt + 1
           next == AfterRequest(att, gen.llm_retries, outcome)
           g1 == [gen EXCEPT !.attempt = att, !.outcomes = Append(@, outcome)]
       IN  gen' = IF ~(gen.attempt <= gen.llm_retries)
                  THEN [gen EXCEPT !.pc = "idle", !.returned = TRUE, !.haiku = FALSE]
                  ELSE CASE next = "return" ->
                              [g1 EXCEPT !.pc = "idle", !.returned = TRUE,
                                         !.haiku = TRUE]
                         [] next = "sleep" -> [g1 EXCEPT !.pc = "sleep"]
                         [] OTHER ->
                              [g1 EXCEPT !.pc = "idle", !.returned = TRUE,
                                         !.haiku = FALSE]
    /\ UNCHANGED <<coreVars, cli, sh, recent_haikus, lastAdd, haiku_in, haiku_out, signal_stats, signal_profiles, supplied, node_info, tracked, mq, lp>>

\* time.sleep(backoff); backoff = min(backoff * 2, 30); continue
GenerateSleep ==
    /\ gen.pc = "sleep"
    /\ gen' = [gen EXCEPT !.pc = "loop",
                          !.backoff = IF @ * 2 < 30 THEN @ * 2 ELSE 30]
    /\ UNCHANGED <<coreVars, cli, sh, recent_haikus, lastAdd, haiku_in, haiku_out, signal_stats, signal_profiles, supplied, node_info, tracked, mq, lp>>

\* ---------------------------------------------- validate_and_clean_haiku
\* A string is a sequence of characters, one character for each class the
\* function tells apart: "a" a letter, "1" a digit, "half" a numeric
\* character that is neither (such as the fraction one half: isalnum()
\* holds for it, isalpha() and isdigit() do not), " " the space, "tab" any
\* other whitespace, ".", ",", ";" themselves, "!" one of ! ? :, "-" a
\* dash, "(" a bracket or quote, "@" any other character.
Chars == {"a", "1", "half", " ", "tab", ".", ",", ";", "!", "-", "(", "@"}

\* char.isalnum()
IsAlnum(c) == c \in {"a", "1", "half"}

\* char.isspace()
IsSpace(c) == c \in {" ", "tab"}

\* "Silent forest whispers"
Fallback ==
    [i \in 1 .. 22 |-> IF i \in {7, 14} THEN " " ELSE "a"]

\* The body of the for loop: what is appended to cleaned for char c.
CleanCharKeepsOther(c) ==
    IF IsAlnum(c) \/ IsSpace(c) \/ c \in {".", ",", ";"} THEN <<c>>
    ELSE IF c = "!" THEN <<".">>
    ELSE IF c = "-" THEN <<",">>
    ELSE IF c = "(" THEN <<>>
    ELSE <<c>>

CleanChar(c) ==
    IF IsAlnum(c) \/ IsSpace(c) \/ c \in {".", ",", ";"} THEN <<c>>
    ELSE IF c = "!" THEN <<".">>
    ELSE IF c = "-" THEN <<",">>
    ELSE IF c = "(" THEN <<>>
    ELSE <<" ">>

RECURSIVE CleanChars(_)
CleanChars(s) ==
    IF s = <<>> THEN <<>> ELSE CleanChar(Head(s)) \o CleanChars(Tail(s))

\* result.split(): the words of s; cur is the word being read.
RECURSIVE SplitWords(_, _)
SplitWords(s, cur) ==
    IF s = <<>> THEN (IF cur = <<>> THEN <<>> ELSE <<cur>>)
    ELSE IF IsSpace(Head(s))
    THEN (IF cur = <<>> THEN <<>> ELSE <<cur>>) \o SplitWords(Tail(s), <<>>)
    ELSE SplitWords(Tail(s), Append(cur, Head(s)))

\* ' '.join(words)
RECURSIVE JoinWords(_)
JoinWords(ws) ==
    IF ws = <<>> THEN <<>>
    ELSE IF Len(ws) = 1 THEN ws[1]
    ELSE ws[1] \o <<" ">> \o JoinWords(Tail(ws))

\* result.strip()
RECURSIVE StripLeft(_)
StripLeft(s) ==
    IF s # <<>> /\ IsSpace(Head(s)) THEN StripLeft(Tail(s)) ELSE s

RECURSIVE StripRight(_)
StripRight(s) ==
    IF s # <<>> /\ IsSpace(s[Len(s)]) THEN StripRight(SubSeq(s, 1, Len(s) - 1))
    ELSE s

Strip(s) == StripRight(StripLeft(s))

\* validate_and_clean_haiku(haiku)
ValidateAndCleanHaiku(haiku) ==
    IF haiku = <<>> THEN Fallback
    ELSE LET joined == JoinWords(SplitWords(CleanChars(haiku), <<>>))
         IN  IF Strip(joined) = <<>> THEN Fallback ELSE Strip(joined)

\* The caller builds the argument, one character after the other.
TypeChar(c) ==
    /\ ~haiku_out.done
    /\ Len(haiku_in) < MaxLen
    /\ haiku_in' = Append(haiku_in, c)
    /\ UNCHANGED <<coreVars, cli, sh, recent_haikus, lastAdd, gen, haiku_out, signal_stats, signal_profiles, supplied, node_info, tracked, mq, lp>>

\* validate_and_clean_haiku(haiku) is called and returns.
CallValidate ==
    /\ ~haiku_out.done
    /\ haiku_out' = [done |-> TRUE, value |-> ValidateAndCleanHaiku(haiku_in)]
    /\ UNCHANGED <<coreVars, cli, sh, recent_haikus, lastAdd, gen, haiku_in, signal_stats, signal_profiles, supplied, node_info, tracked, mq, lp>>

\* ------------------------------------------------------- signal readings
\* node_id in signal_stats, and the position of its entry
HasEntry(stats, id) == \E i \in DOMAIN stats : stats[i].id = id

EntryAt(stats, id) == CHOOSE i \in DOMAIN stats : stats[i].id = id

\* list.append(v); if len(list) > 10: list.pop(0)
AppendReadingDropNewest(list, v) ==
    IF Len(list) + 1 > MaxReadings THEN list ELSE Append(list, v)

AppendReading(list, v) ==
    IF Len(list) + 1 > MaxReadings THEN Tail(Append(list, v))
    ELSE Append(list, v)

\* analyze_local_node on an entry.  strong: the averages of the stored
\* readings pass the thresholds of lines 378-385.
Analyzed(entry, strong) ==
    IF entry.confirmed_1hop THEN [entry EXCEPT !.is_local = TRUE]
    ELSE IF Len(entry.rssi) < 3 THEN entry
    ELSE [entry EXCEPT !.is_local = strong]

\* update_signal_stats(node_id, rssi, snr); hasR, hasS: rssi, snr is not
\* None; r, s: their values.
StatsUpdated(stats, id, hasR, r, hasS, s, strong) ==
    LET st == IF HasEntry(stats, id) THEN stats ELSE Append(stats, NoEntry(id))
        i == EntryAt(st, id)
        e1 == IF hasR THEN [st[i] EXCEPT !.rssi = AppendReading(@, r)] ELSE st[i]
        e2 == IF hasS THEN [e1 EXCEPT !.snr = AppendReading(@, s)] ELSE e1
    IN  [st EXCEPT ![i] = Analyzed(e2, strong)]

\* update_signal_profile(node_id, snr, rssi)
ProfileUpdated(p, hasS, s, hasR, r) ==
    LET p1 == IF hasS
              THEN [p EXCEPT !.snr = LastOf(Append(@, s), MaxReadings)] ELSE p
    IN  IF hasR THEN [p1 EXCEPT !.present = TRUE,
                                !.rssi = LastOf(Append(@, r), MaxReadings)]
        ELSE [p1 EXCEPT !.present = TRUE]

\* The tracker is given a reading of node n.
UpdateSignalStats(n, hasR, hasS, strong) ==
    /\ supplied.program \in {"none", "tracker"}
    /\ supplied.updates < MaxUpdates
    /\ LET r == supplied.stats[n].rssi + 1
           s == supplied.stats[n].snr + 1
       IN  /\ signal_stats' = StatsUpdated(signal_stats, n, hasR, r, hasS, s, strong)
           /\ supplied' = [supplied EXCEPT
                  !.program = "tracker",
                  !.updates = @ + 1,
                  !.stats[n].rssi = IF hasR THEN r ELSE @,
                  !.stats[n].snr = IF hasS THEN s ELSE @]
    /\ UNCHANGED <<coreVars, cli, sh, recent_haikus, lastAdd, gen, haiku_in,
                   haiku_out, signal_profiles,
                   node_info, tracked, mq, lp>>

\* The inference module is given a reading of node n.
UpdateSignalProfile(n, hasS, hasR) ==
    /\ supplied.program \in {"none", "inference"}
    /\ supplied.updates < MaxUpdates
    /\ LET r == supplied.profiles[n].rssi + 1
           s == supplied.profiles[n].snr + 1
       IN  /\ signal_profiles' =
                 [signal_profiles EXCEPT ![n] = ProfileUpdated(@, hasS, s, hasR, r)]
           /\ supplied' = [supplied EXCEPT
                  !.program = "inference",
                  !.updates = @ + 1,
                  !.profiles[n].rssi = IF hasR THEN r ELSE @,
                  !.profiles[n].snr = IF hasS THEN s ELSE @]
    /\ UNCHANGED <<coreVars, cli, sh, recent_haikus, lastAdd, gen, haiku_in,
                   haiku_out, signal_stats,
                   node_info, tracked, mq, lp>>

\* -------------------------------------------------- the tracker's packets
\* The packets fed to process_packet: one that no test of is_direct_packet
\* accepts, one per test that accepts it, and a node-info packet.
PacketShapes ==
    { [type |-> "text", hops |-> -1, portnum |-> -1, rssi |-> "none"],
      [type |-> "text", hops |-> 3, portnum |-> -1, rssi |-> "weak"],
      [type |-> "text", hops |-> 0, portnum |-> -1, rssi |-> "none"],
      [type |-> "telemetry", hops |-> 3, portnum |-> -1, rssi |-> "none"],
      [type |-> "position", hops |-> 3, portnum |-> -1, rssi |-> "none"],
      [type |-> "text", hops |-> 3, portnum |-> 6, rssi |-> "none"],
      [type |-> "text", hops |-> 3, portnum |-> -1, rssi |-> "strong"],
      [type |-> "rangetest", hops |-> 3, portnum |-> -1, rssi |-> "none"],
      [type |-> "nodeinfo", hops |-> 3, portnum |-> -1, rssi |-> "none"] }

\* is_direct_packet of process_packet (lines 146-179)
IsDirectPacket(type, hops, portnum, rssi) ==
    \/ hops = 0
    \/ type = "telemetry"
    \/ type = "position"
    \/ portnum = 6
    \/ rssi = "strong"
    \/ type = "rangetest"

\* Lines 183-187: the entry of from_hex is marked confirmed and local.
MarkedConfirmed(stats, id) ==
    LET st == IF HasEntry(stats, id) THEN stats ELSE Append(stats, NoEntry(id))
        i == EntryAt(st, id)
    IN  [st EXCEPT ![i].confirmed_1hop = TRUE, ![i].is_local = TRUE]

\* display_local_nodes: nothing without a local node; else, at the end,
\* the oldest entries beyond 100 are deleted.
Displayed(stats) ==
    IF \E i \in DOMAIN stats : stats[i].is_local
    THEN LastOf(stats, MaxKept)
    ELSE stats

\* node_info of the watched node after analyze_local_node on its entry.
InfoAnalyzed(info, before, after) ==
    IF ~info.present THEN info
    ELSE IF before.confirmed_1hop
    THEN [info EXCEPT !.is_local = TRUE, !.confirmed_1hop = TRUE]
    ELSE IF Len(before.rssi) < 3 THEN info
    ELSE [info EXCEPT !.is_local = after.is_local]

\* node_info after update_signal_stats on node id.
InfoUpdated(info, stats, id, hasR, strong) ==
    IF id # Watched THEN info
    ELSE LET st == IF HasEntry(stats, id) THEN stats ELSE Append(stats, NoEntry(id))
             e == st[EntryAt(st, id)]
             e1 == IF hasR THEN [e EXCEPT !.rssi = AppendReading(@, 0)] ELSE e
         IN  InfoAnalyzed(info, e1, Analyzed(e1, strong))

\* process_packet(packet_data) from the MQTT callback.  sender, from: the
\* nodes named by the fields sender and from, 0 when the field is missing.
ProcessPacket(sender, from, type, hops, portnum, rssi, hasS, strong) ==
    /\ sender \in {0, Watched} \/ sender = FirstOther + tracked.others
    /\ from \in {0, Watched}
    /\ sender = FirstOther + tracked.others
          => /\ tracked.others < MaxOthers
             /\ from = 0 /\ type = "text" /\ hops = -1 /\ portnum = -1
             /\ rssi = "none" /\ ~hasS /\ ~strong
    /\ sender # FirstOther + tracked.others
          => /\ tracked.events < MaxWatchedEvents
             /\ tracked.others % WatchEvery = 0
    /\ LET hasR == rssi # "none"
           r == supplied.stats[Watched].rssi + 1
           s == supplied.stats[Watched].snr + 1
           st1 == IF sender # 0
                  THEN StatsUpdated(signal_stats, sender, hasR, r, hasS, s, strong)
                  ELSE signal_stats
           in1 == IF sender # 0
                  THEN InfoUpdated(node_info, signal_stats, sender, hasR, strong)
                  ELSE node_info
           confirm == IsDirectPacket(type, hops, portnum, rssi) /\ from # 0
           st2 == IF confirm THEN MarkedConfirmed(st1, from) ELSE st1
           in2 == IF confirm
                  THEN [present |-> TRUE, is_local |-> TRUE, confirmed_1hop |-> TRUE]
                  ELSE in1
           in3 == IF from # 0 /\ type = "position" THEN [in2 EXCEPT !.present = TRUE]
                  ELSE IF from # 0 /\ type = "nodeinfo"
                  THEN [present |-> TRUE, is_local |-> FALSE, confirmed_1hop |-> FALSE]
                  ELSE in2
       IN  /\ signal_stats' = Displayed(st2)
           /\ node_info' = in3
           /\ supplied' = [supplied EXCEPT
                  !.program = "tracker",
                  !.stats[Watched].rssi = IF sender = Watched /\ hasR THEN r ELSE @,
                  !.stats[Watched].snr = IF sender = Watched /\ hasS THEN s ELSE @]
           /\ tracked' = [tracked EXCEPT
                  !.confirmed = @ \/ confirm,
                  !.others = IF sender = FirstOther + tracked.others THEN @ + 1 ELSE @,
                  !.events = IF sender = FirstOther + tracked.others THEN @ ELSE @ + 1]
    /\ UNCHANGED <<coreVars, cli, sh, recent_haikus, lastAdd, gen, haiku_in,
                   haiku_out, signal_profiles,
                   mq, lp>>

\* One pass of fetch_node_info in which the radio lists the watched node.
FetchNodeInfo(hasR, hasS, strong) ==
    /\ tracked.events < MaxWatchedEvents
    /\ tracked.others % WatchEvery = 0
    /\ LET r == supplied.stats[Watched].rssi + 1
           s == supplied.stats[Watched].snr + 1
           st0 == IF HasEntry(signal_stats, Watched) THEN signal_stats
                  ELSE Append(signal_stats, NoEntry(Watched))
           in0 == [present |-> TRUE, is_local |-> FALSE, confirmed_1hop |-> FALSE]
       IN  /\ signal_stats' =
                 IF hasR \/ hasS
                 THEN StatsUpdated(st0, Watched, hasR, r, hasS, s, strong)
                 ELSE st0
           /\ node_info' =
                 IF hasR \/ hasS THEN InfoUpdated(in0, st0, Watched, hasR, strong)
                 ELSE in0
           /\ supplied' = [supplied EXCEPT
                  !.program = "tracker",
                  !.stats[Watched].rssi = IF hasR THEN r ELSE @,
                  !.stats[Watched].snr = IF hasS THEN s ELSE @]
           /\ tracked' = [tracked EXCEPT !.events = @ + 1]
    /\ UNCHANGED <<coreVars, cli, sh, recent_haikus, lastAdd, gen, haiku_in,
                   haiku_out, signal_profiles,
                   mq, lp>>

\* ------------------------------------- send_channel_message_mqtt.py sender
\* connect() up to the wait loop.  raises: client.connect() raises (the
\* broker cannot be reached); the except clause returns False.
MqttConnect(raises) ==
    /\ mq.pc = "idle"
    /\ mq.made < MaxClients
    /\ LET c == mq.made + 1
       IN  mq' = IF raises
                 THEN [mq EXCEPT !.client = c, !.made = c,
                                 !.op = "connect", !.ret = FALSE]
                 ELSE [mq EXCEPT !.client = c, !.made = c,
                                 !.link[c] = "pending",
                                 !.loops = @ \cup {c},
                                 !.pc = "waiting", !.polls = 0]
    /\ UNCHANGED <<coreVars, cli, sh, recent_haikus, lastAdd, gen, haiku_in,
                   haiku_out, signal_stats, signal_profiles, supplied,
                   node_info, tracked, lp>>

\* One test of the wait loop of connect(), and what follows it.
MqttWait ==
    /\ mq.pc = "waiting"
    /\ mq' = IF mq.connected
             THEN [mq EXCEPT !.pc = "idle", !.op = "connect", !.ret = TRUE]
             ELSE IF mq.polls >= MaxPolls
             THEN [mq EXCEPT !.pc = "idle", !.op = "connect", !.ret = FALSE]
             ELSE [mq EXCEPT !.polls = @ + 1]
    /\ UNCHANGED <<coreVars, cli, sh, recent_haikus, lastAdd, gen, haiku_in,
                   haiku_out, signal_stats, signal_profiles, supplied,
                   node_info, tracked, lp>>

\* on_connect, called by the loop thread of client c with the broker's answer.
MqttOnConnect(c, accepted) ==
    /\ c \in mq.loops
    /\ mq.link[c] \in {"pending", "down"}
    /\ mq' = [mq EXCEPT !.connected = accepted,
                        !.link[c] = IF accepted THEN "up" ELSE "down"]
    /\ UNCHANGED <<coreVars, cli, sh, recent_haikus, lastAdd, gen, haiku_in,
                   haiku_out, signal_stats, signal_profiles, supplied,
                   node_info, tracked, lp>>

\* on_disconnect, called by the loop thread of client c when the broker
\* drops the connection.
MqttOnDisconnect(c) ==
    /\ c \in mq.loops
    /\ mq.link[c] = "up"
    /\ mq' = [mq EXCEPT !.connected = FALSE, !.link[c] = "down"]
    /\ UNCHANGED <<coreVars, cli, sh, recent_haikus, lastAdd, gen, haiku_in,
                   haiku_out, signal_stats, signal_profiles, supplied,
                   node_info, tracked, lp>>

\* send_channel_message / send_node_message.  accepted: publish() returns
\* MQTT_ERR_SUCCESS.
MqttPublish(accepted) ==
    /\ mq.pc = "idle"
    /\ mq.published < MaxPublishes
    /\ mq' = IF ~mq.connected \/ mq.client = 0
             THEN [mq EXCEPT !.op = "send", !.ret = FALSE]
             ELSE [mq EXCEPT !.op = "send", !.ret = accepted,
                             !.published = IF accepted THEN @ + 1 ELSE @]
    /\ UNCHANGED <<coreVars, cli, sh, recent_haikus, lastAdd, gen, haiku_in,
                   haiku_out, signal_stats, signal_profiles, supplied,
                   node_info, tracked, lp>>

\* close() with the test that guards loop_stop() and disconnect().
Released(m) ==
    IF m.client # 0 /\ m.connected
    THEN [m EXCEPT !.loops = @ \ {m.client},
                   !.link[m.client] = "none",
                   !.client = 0,
                   !.connected = FALSE]
    ELSE [m EXCEPT !.connected = FALSE]

MqttClose ==
    /\ mq.pc = "idle"
    /\ mq' = [Released(mq) EXCEPT !.op = "close", !.ret = FALSE,
                                   !.closing = mq.client]
    /\ UNCHANGED <<coreVars, cli, sh, recent_haikus, lastAdd, gen, haiku_in,
                   haiku_out, signal_stats, signal_profiles, supplied,
                   node_info, tracked, lp>>

\* ------------------------------------------------------ listen_packets.py
\* max_attempts = 999999 if not args.no_reconnect else 1
MaxAttemptsOf(nr) == IF nr THEN 1 ELSE ManyAttempts

\* A clause `except (socket.error, OSError, ConnectionError)` or `except
\* Exception` of listen_with_reconnect up to its time.sleep: the interface
\* is closed and discarded; --no-reconnect breaks, and the finally clause
\* finds no interface.
Caught(l) ==
    LET l1 == [l EXCEPT !.connection_lost = TRUE,
                        !.handled = @ + 1,
                        !.closed = IF l.interface # 0 THEN @ \cup {l.interface} ELSE @,
                        !.interface = 0]
    IN  IF l.no_reconnect
        THEN [l1 EXCEPT !.pc = "done", !.endedBy = "error"]
        ELSE [l1 EXCEPT !.pc = "backoff"]

\* The run ends on an exception that leaves listen_with_reconnect, after
\* its finally clause.
Escaped(l, by) ==
    [l EXCEPT !.pc = "done", !.endedBy = by,
              !.closed = IF l.interface # 0 THEN @ \cup {l.interface} ELSE @]

\* main(): the arguments are parsed and listen_with_reconnect(args) starts.
ListenStart(nr, delay) ==
    /\ lp.pc = "args"
    /\ lp' = [lp EXCEPT !.pc = "top", !.no_reconnect = nr, !.reconnect_delay = delay]
    /\ UNCHANGED <<coreVars, cli, sh, recent_haikus, lastAdd, gen, haiku_in,
                   haiku_out, signal_stats, signal_profiles, supplied,
                   node_info, tracked, mq>>

\* Top of the outer loop: without an interface the flag is reset and
\* connect_with_retry is entered.
ListenTop ==
    /\ lp.pc = "top"
    /\ lp' = IF lp.interface = 0
             THEN [lp EXCEPT !.flag = FALSE, !.pc = "connect", !.attempt = 1,
                             !.retried = IF lp.connection_lost THEN @ + 1 ELSE @]
             ELSE [lp EXCEPT !.pc = "loop"]
    /\ UNCHANGED <<coreVars, cli, sh, recent_haikus, lastAdd, gen, haiku_in,
                   haiku_out, signal_stats, signal_profiles, supplied,
                   node_info, tracked, mq>>

\* One pass of the loop of connect_with_retry.  built: the constructor
\* returns; otherwise it raises, and the except clause gives up (the
\* exception reaches listen_with_reconnect) or sleeps and tries again;
\* time.sleep raises ValueError on a negative delay, which reaches
\* listen_with_reconnect as well.
ListenConnect(ok) ==
    /\ lp.pc = "connect"
    /\ lp.attempt <= MaxAttemptsOf(lp.no_reconnect)
    /\ ok => lp.built < MaxBuilt
    /\ ~ok => lp.attempt < MaxBuilt
    /\ lp' = IF ok
             THEN [lp EXCEPT !.interface = lp.built + 1, !.built = @ + 1,
                             !.connection_lost = FALSE, !.pc = "loop"]
             ELSE IF lp.no_reconnect \/ lp.attempt >= MaxAttemptsOf(lp.no_reconnect)
             THEN Caught(lp)
             ELSE IF SleepRaises(lp.reconnect_delay)
             THEN Caught(lp)
             ELSE [lp EXCEPT !.attempt = @ + 1]
    /\ UNCHANGED <<coreVars, cli, sh, recent_haikus, lastAdd, gen, haiku_in,
                   haiku_out, signal_stats, signal_profiles, supplied,
                   node_info, tracked, mq>>

\* MeshtasticErrorHandler.emit on a record that matches a pattern, from
\* whatever thread logs it.
ListenEmit ==
    /\ lp.pc \notin {"args", "done"}
    /\ lp.logged < MaxErrors
    /\ lp' = [lp EXCEPT !.flag = TRUE, !.logged = @ + 1]
    /\ UNCHANGED <<coreVars, cli, sh, recent_haikus, lastAdd, gen, haiku_in,
                   haiku_out, signal_stats, signal_profiles, supplied,
                   node_info, tracked, mq>>

\* The inner loop finds the flag set and raises ConnectionError, which the
\* first except clause catches.
ListenDetect ==
    /\ lp.pc = "loop"
    /\ lp.flag
    /\ lp' = Caught(lp)
    /\ UNCHANGED <<coreVars, cli, sh, recent_haikus, lastAdd, gen, haiku_in,
                   haiku_out, signal_stats, signal_profiles, supplied,
                   node_info, tracked, mq>>

\* time.sleep(args.reconnect_delay); continue, in the except clause.
ListenBackoff ==
    /\ lp.pc = "backoff"
    /\ lp' = IF SleepRaises(lp.reconnect_delay)
             THEN Escaped(lp, "fatal")
             ELSE [lp EXCEPT !.pc = "top"]
    /\ UNCHANGED <<coreVars, cli, sh, recent_haikus, lastAdd, gen, haiku_in,
                   haiku_out, signal_stats, signal_profiles, supplied,
                   node_info, tracked, mq>>

\* Ctrl+C: in the try block the KeyboardInterrupt clause breaks; in an
\* except clause it leaves the function; the finally clause closes the
\* interface either way.
ListenInterrupt ==
    /\ lp.pc \in {"top", "connect", "loop", "backoff"}
    /\ lp' = Escaped(lp, "interrupt")
    /\ UNCHANGED <<coreVars, cli, sh, recent_haikus, lastAdd, gen, haiku_in,
                   haiku_out, signal_stats, signal_profiles, supplied,
                   node_info, tracked, mq>>

\* ------------------------------------------------------------------- Next
\* The steps of the caller thread, with at most cap links ever constructed.
Caller(cap) ==
    \/ CallConnect
    \/ CallClose
    \/ \E nw \in BOOLEAN, rt \in BOOLEAN : CallSendMessage(nw, rt)
    \/ CallerResumes
    \/ \E o \in ConnectOutcomes : ConnectAttempt(o, cap)
    \/ HealthCheck
    \/ \E id \in PacketIds : SendTextPacket(id)
    \/ SendTextNone
    \/ \E k \in SendErrorKinds : SendTextRaises(k)
    \/ WaitTick
    \/ WaitEmpty
    \/ WaitDeadline

\* The sender and the receive threads of its links.
Next ==
    \/ Caller(MaxEpochs)
    \/ WaitDequeue
    \/ \E l \in 1 .. MaxLinks, id \in PacketIds, res \in ResCodes :
          ReceiveQueueStatus(l, id, res)
    \/ \E l \in 1 .. MaxLinks : ReceivePacket(l)

Spec == Init /\ [][Next]_vars

\* The sender on a radio that delivers nothing: the send, reconnect and
\* retry paths, with room for the links of three send attempts.
NextRetry == Caller(MaxLinks)

SpecRetry == Init /\ [][NextRetry]_vars

\* The same, with a caller thread that is scheduled while it is inside
\* connect(): t.join(connect_timeout) and the sleeps return after a bounded
\* time, so a pending pass of the attempt loop is eventually taken.
SpecConnect ==
    /\ Init
    /\ [][NextRetry]_vars
    /\ WF_vars(\E o \in ConnectOutcomes : ConnectAttempt(o, MaxLinks))

\* The sender and the heartbeat timers of its links.
NextHb ==
    \/ Caller(MaxEpochs)
    \/ \E l \in 1 .. MaxLinks : Heartbeat(l)

SpecHb == Init /\ [][NextHb]_vars

\* connect() and close() called in any order, with the construction threads
\* that connect() abandons.
NextLate ==
    \/ CallConnect
    \/ CallClose
    \/ AttemptStart
    \/ \E k \in BuildKinds : BuildDone(k, MaxLinks)
    \/ JoinTimeout
    \/ AttemptCheck
    \/ \E k \in BuildKinds : LateBuild(k, MaxLinks)

SpecLate == Init /\ [][NextLate]_vars

\* connect() and close() called in any order, close() statement by
\* statement, with the heartbeat timers of the links.
NextClose ==
    \/ CallConnect
    \/ \E o \in ConnectOutcomes : ConnectAttempt(o, MaxEpochs)
    \/ CloseEnter
    \/ \E r \in BOOLEAN : CloseStep(r)
    \/ \E l \in 1 .. MaxLinks : Heartbeat(l)

SpecClose == Init /\ [][NextClose]_vars

\* The caller thread on a radio that delivers nothing, with every failure
\* the link can answer a call with: connect() also meets links whose
\* handlers cannot be read, and close() is taken statement by statement.
NextErr ==
    \/ Caller(MaxEpochs)
    \/ ConnectAttempt("installfail", MaxEpochs)
    \/ CloseEnter
    \/ \E r \in BOOLEAN : CloseStep(r)

SpecErr == Init /\ [][NextErr]_vars

\* connect() and close() called in any order, and the receive threads of
\* the links, with the exceptions an interceptor can meet.
NextRx ==
    \/ CallConnect
    \/ CallClose
    \/ \E o \in ConnectOutcomes : ConnectAttempt(o, MaxEpochs)
    \/ \E l \in 1 .. MaxLinks, pr \in BOOLEAN, orr \in BOOLEAN :
          PacketHandler(l, pr, orr)
    \/ \E l \in 1 .. MaxLinks, qs \in BOOLEAN, id \in PacketIds,
          res \in ResCodes, dr \in BOOLEAN, pr \in BOOLEAN, orr \in BOOLEAN :
          FromRadioHandler(l, qs, id, res, dr, pr, orr)

SpecRx == Init /\ [][NextRx]_vars

\* One run of a command-line tool, the calls on its sender taken as single
\* steps with either result.
NextCli ==
    \/ \E t \in Tools, hc \in BOOLEAN, ch \in ChannelArgs, nd \in BOOLEAN,
          rp \in RepeatArgs : Parse(t, hc, ch, nd, rp)
    \/ Validate
    \/ LoopTop(MaxIter)
    \/ \E ok \in BOOLEAN : Generate(ok)
    \/ Sleep
    \/ Interrupt
    \/ \E ok \in BOOLEAN : CliConnect(ok)
    \/ \E ok \in BOOLEAN : CliSend(ok)
    \/ CliClose

SpecCli == Init /\ [][NextCli]_vars

\* One run of the haiku tool without a user interrupt, on the sender
\* itself: each pass makes its own sender, and the radio answers on the
\* link that sender holds.
NextHaiku ==
    \/ \E ch \in ChannelArgs, rp \in RepeatArgs : Parse("haiku", TRUE, ch, FALSE, rp)
    \/ Validate
    \/ LoopTop(MaxEpochs)
    \/ \E ok \in BOOLEAN : Generate(ok)
    \/ Sleep
    \/ HaikuConnectCall
    \/ HaikuConnectReturn
    \/ HaikuSendCall
    \/ HaikuSendReturn
    \/ HaikuCloseCall
    \/ \E o \in ConnectOutcomes : ConnectAttempt(o, MaxLinks)
    \/ HealthCheck
    \/ \E id \in PacketIds : SendTextPacket(id)
    \/ SendTextNone
    \/ \E k \in SendErrorKinds : SendTextRaises(k)
    \/ WaitTick
    \/ WaitEmpty
    \/ WaitDeadline
    \/ WaitDequeue
    \/ \E id \in PacketIds, res \in ResCodes :
          interface # 0 /\ ReceiveQueueStatus(interface, id, res)

SpecHaiku == Init /\ [][NextHaiku]_vars

\* send_haiku called for one message after the other, with a sender whose
\* send_message succeeds, fails or raises.
NextSendHaiku ==
    \/ \E ch \in ChannelArgs : SendHaikuCall(ch)
    \/ \E o \in SendOutcomes : SendHaikuAttempt(o)
    \/ SendHaikuSleep

SpecSendHaiku == Init /\ [][NextSendHaiku]_vars
\* The haiku history: loaded once from a file of at most 20 distinct
\* haikus, then added to.
NextHistory ==
    \/ \E n \in 0 .. MaxHistory : LoadHistory(n)
    \/ \E h \in 0 .. MaxHaiku : AddHaikuToHistory(h)

SpecHistory == Init /\ [][NextHistory]_vars
\* One call of generate_haiku, with an LLM that answers, times out or
\* fails otherwise.
NextGenerate ==
    \/ \E n \in -1 .. MaxRetryArg : GenerateCall(n)
    \/ \E o \in RequestOutcomes : GenerateRequest(o)
    \/ GenerateSleep

SpecGenerate == Init /\ [][NextGenerate]_vars
\* validate_and_clean_haiku on every string of up to MaxLen characters.
NextValidate ==
    \/ \E c \in Chars : TypeChar(c)
    \/ CallValidate

SpecValidate == Init /\ [][NextValidate]_vars
\* Signal readings supplied to the tracker or to the inference module (two
\* programs: a run is a run of one of them), with and without rssi and snr.
NextSignal ==
    \/ \E n \in SignalNodes, hr \in BOOLEAN, hs \in BOOLEAN, st \in BOOLEAN :
          UpdateSignalStats(n, hr, hs, st)
    \/ \E n \in SignalNodes, hs \in BOOLEAN, hr \in BOOLEAN :
          UpdateSignalProfile(n, hs, hr)

SpecSignal == Init /\ [][NextSignal]_vars
\* The tracker: packets and node-info fetches about one watched node, and
\* packets that name other nodes as their sender, each node once.
NextTracker ==
    \/ \E sd \in {0, Watched, FirstOther + tracked.others}, fr \in {0, Watched},
          p \in PacketShapes, hs \in BOOLEAN, st \in BOOLEAN :
          ProcessPacket(sd, fr, p.type, p.hops, p.portnum, p.rssi, hs, st)
    \/ \E hr \in BOOLEAN, hs \in BOOLEAN, st \in BOOLEAN : FetchNodeInfo(hr, hs, st)

SpecTracker == Init /\ [][NextTracker]_vars
\* One MQTTMeshtasticSender, its methods called in any order, and the
\* callbacks of its clients' loop threads.
NextMqtt ==
    \/ \E raises \in BOOLEAN : MqttConnect(raises)
    \/ MqttWait
    \/ \E c \in 1 .. MaxClients, accepted \in BOOLEAN : MqttOnConnect(c, accepted)
    \/ \E c \in 1 .. MaxClients : MqttOnDisconnect(c)
    \/ \E accepted \in BOOLEAN : MqttPublish(accepted)
    \/ MqttClose

SpecMqtt == Init /\ [][NextMqtt]_vars
\* The packet listener: its main thread, the logging handler and Ctrl+C.
NextListen ==
    \/ \E nr \in BOOLEAN, delay \in DelayArgs : ListenStart(nr, delay)
    \/ ListenTop
    \/ \E ok \in BOOLEAN : ListenConnect(ok)
    \/ ListenEmit
    \/ ListenDetect
    \/ ListenBackoff
    \/ ListenInterrupt

SpecListen == Init /\ [][NextListen]_vars

TypeOK ==
    /\ pc \in {"idle", "c_attempt", "c_join", "c_check", "x_close",
               "s_health", "s_send", "s_wait", "s_get", "returned", "escaped"}
    /\ late \in 0 .. RETRY_COUNT
    /\ closeAt \in 0 .. Len(CloseSteps)
    /\ interface \in 0 .. MaxLinks
    /\ nextLink \in 1 .. MaxLinks + 1
    /\ Len(packet_queue) <= MaxQueue
    /\ attempt \in 0 .. RETRY_COUNT
    /\ send_attempt \in 0 .. 2
    /\ waited \in 0 .. TimeoutTicks + PollTicks

Waiting == pc \in {"s_wait", "s_get"}

\* ================================================================= claims
\* C1: no sendText is issued while the Pending Send of an earlier sendText
\* is unresolved.  Whenever the caller is about to issue sendText no Pending
\* Send is open, at most one is ever open, and one is open only while its
\* own call waits for its confirmation.
C1_OneSendInFlight ==
    /\ pc = "s_send" => pendingSend = {}
    /\ Cardinality(pendingSend) <= 1
    /\ pendingSend # {} => Waiting /\ pendingSend = {packet_id}

\* A second sendText of one call is awaited after the first raised.
C1_Witness ==
    /\ Waiting
    /\ call.sends >= 2
    /\ pendingSend = {packet_id}

\* C2: the wait for packet id P ends only on a queue-status record whose
\* mesh_packet_id is P, with the result that record carries; a record for P
\* with res = 0 makes send_message return success, whatever was dequeued
\* and discarded before it.
C2_ResolvesOnlyOnMatch ==
    /\ call.resolver.present =>
          /\ call.resolver.id = packet_id
          /\ call.result = (call.resolver.res = 0)
          /\ pc = "returned"
    /\ call.seen = "ok" =>
          /\ pc = "returned"
          /\ call.result
          /\ call.reason = "ack_ok"
    /\ call.reason \in {"ack_ok", "ack_fail"} => call.resolver.present

\* Success after a queue-status record for another id was discarded.
C2_Witness ==
    /\ pc = "returned"
    /\ call.reason = "ack_ok"
    /\ call.otherId

\* C3: a queue-status record for the active Pending Send with res # 0 makes
\* send_message return failure at once: the call is over in the very step
\* that dequeues the record, with no sendText, close() or connect() after
\* the sendText it answers.
C3_NonZeroIsFailure ==
    call.seen = "fail" =>
        /\ pc = "returned"
        /\ ~call.result
        /\ call.reason = "ack_fail"
        /\ call.prevKind = "none"
        /\ call.gapCloses = 0
        /\ call.gapConnects = 0

C3_Witness ==
    /\ call.seen = "fail"
    /\ call.resolver.present
    /\ call.resolver.res = 5

\* C4: without a matching record send_message returns failure by the timeout
\* only, no earlier than TimeoutTicks after the send and no later than
\* TimeoutTicks + PollTicks, whatever else was dequeued meanwhile.
C4_TimeoutWindow ==
    /\ call.timedOut =>
          /\ pc = "returned"
          /\ ~call.result
          /\ call.elapsed >= TimeoutTicks
          /\ call.elapsed <= TimeoutTicks + PollTicks
    /\ (/\ pc = "returned"
        /\ call.reason \in {"ack_ok", "ack_fail", "timeout"}
        /\ call.seen = "none") => call.timedOut

\* A timeout past the deadline, after a record for another id was discarded.
C4_Witness ==
    /\ call.timedOut
    /\ call.otherId
    /\ call.elapsed > TimeoutTicks

\* C5, as claimed: a call that returns by the confirmation timeout has issued
\* exactly one sendText and performed no close() and no connect().
C5_Original ==
    (pc = "returned" /\ call.reason = "timeout") =>
        /\ call.sends = 1
        /\ call.closes = 0
        /\ call.connects = 0

\* C5, amended: the confirmation timeout ends the call: send_message returns
\* failure in the step that finds the deadline passed, with no sendText,
\* close() or connect() after the sendText whose confirmation timed out.
C5_TimeoutNotRetried ==
    call.timedOut =>
        /\ pc = "returned"
        /\ ~call.result
        /\ call.reason = "timeout"
        /\ call.prevKind = "none"
        /\ call.gapCloses = 0
        /\ call.gapConnects = 0

\* The timeout of a send that was itself a retry after a reconnect.
C5_Witness ==
    /\ call.timedOut
    /\ call.sends = 2
    /\ call.closes = 1
    /\ call.connects = 1

\* C6: when every sendText raises a connection-reset and every reconnect
\* succeeds, each further sendText is preceded by exactly one close() and one
\* successful connect(), and the call (retry left at its default) returns
\* failure after exactly 3 sendText calls.
C6_ResetRetries ==
    /\ (pc = "s_send" /\ call.sends >= 1 /\ call.allReset) =>
          /\ call.gapCloses = 1
          /\ call.gapConnects = 1
    /\ (/\ pc = "returned"
        /\ retry
        /\ call.sends >= 1
        /\ call.allReset
        /\ ~call.connFail) =>
          /\ call.sends = 3
          /\ ~call.result
          /\ call.reason = "exhausted"

C6_Witness ==
    /\ pc = "returned"
    /\ retry
    /\ call.allReset
    /\ call.sends = 3
    /\ call.reason = "exhausted"
    /\ ~call.connFail

\* C7, as claimed: every sendText after the first of a call is preceded, since
\* the previous sendText, by a close() and a successful connect().
C7_Original ==
    (pc = "s_send" /\ call.sends >= 1) =>
        /\ call.gapCloses >= 1
        /\ call.gapConnects >= 1

\* C7, amended: a sendText that follows one which raised connection-abort,
\* connection-reset or OS host-abort is preceded by one close() and one
\* successful connect(); a sendText that follows a generic exception is
\* issued on the same link, with no close() and no connect() in between.
C7_ReconnectBeforeRetry ==
    (pc = "s_send" /\ call.sends >= 1) =>
        IF call.prevKind \in ReconnectKinds
        THEN call.gapCloses = 1 /\ call.gapConnects = 1
        ELSE /\ call.prevKind = "generic"
             /\ call.gapCloses = 0
             /\ call.gapConnects = 0

\* About to retry after a connection-abort and a reconnect.
C7_Witness ==
    /\ pc = "s_send"
    /\ call.sends = 2
    /\ call.prevKind = "abort"
    /\ call.gapConnects = 1

\* C8, as claimed: a call that ends on an OS-level error of the send call
\* (host-abort or any other OSError), its reconnects having succeeded, has
\* made 3 send attempts.
C8_Original ==
    (/\ pc = "returned"
     /\ retry
     /\ call.prevKind \in {"hostabort", "oserror"}
     /\ ~call.connFail) => call.sends = 3

\* C8, amended: an OS host-abort (winerror 10053) is recovered by close(),
\* reconnect and retry, up to 3 attempts; any other OSError that is neither
\* a connection-abort nor a connection-reset makes send_message return
\* failure at once, with no close(), no connect() and no further sendText.
C8_OsErrorHandling ==
    /\ call.prevKind = "oserror" =>
          /\ pc = "returned"
          /\ ~call.result
          /\ call.reason = "oserror"
          /\ call.gapCloses = 0
          /\ call.gapConnects = 0
    /\ (pc = "s_send" /\ call.sends >= 1 /\ call.prevKind = "hostabort") =>
          /\ call.gapCloses = 1
          /\ call.gapConnects = 1
    /\ (/\ pc = "returned"
        /\ retry
        /\ call.prevKind = "hostabort"
        /\ ~call.connFail) =>
          /\ call.sends = 3
          /\ ~call.result

\* A first attempt that raised a plain OSError ended the call.
C8_Witness ==
    /\ pc = "returned"
    /\ retry
    /\ call.prevKind = "oserror"
    /\ call.sends = 1

\* C9: a record put into the channel by another link than the one the
\* Pending Send was issued on, or before that link was connected, never
\* resolves the Pending Send.
C9_StaleNeverResolves ==
    call.resolver.present => ~call.resolver.stale

\* C10: a sendHeartbeat call that arrives on a link this manager has
\* connected, after close() was called on that link, does not reach the
\* link's original heartbeat send.
C10_HeartbeatNoOpAfterClose ==
    (lastHb.connected /\ lastHb.afterClose) => ~lastHb.original

\* C11: a receive-thread callback that arrives on a link after close() was
\* called on it puts nothing into the channel.  Every record is put by a
\* callback of some link, so whenever a record is put, a link that carries
\* the interceptors and has not been closed exists.
C11_ReceiveNoOpAfterClose ==
    [][Len(packet_queue') > Len(packet_queue) =>
          \E l \in Built : links[l].handlers /\ ~links[l].closed]_vars

\* C12: two links on which connect() succeeded are never open at the same
\* time: connect() closes the link the manager holds before it opens another.
C12_OneOpenLink ==
    Cardinality({l \in Built : links[l].handlers /\ ~links[l].closed}) <= 1

\* connect() returns in this step, and returns failure: the attempt loop is
\* left without a link that took the interceptors.
ConnectFailsNow ==
    /\ pc = "c_attempt"
    /\ pc' # "c_attempt"
    /\ ~(nextLink' > nextLink /\ links'[nextLink].handlers)

\* C13: whenever connect() returns failure the manager holds no link.
C13_FailureHoldsNoLink ==
    [][ConnectFailsNow => interface' = 0]_vars

\* C14: an attempt of connect() that builds a link without a local node,
\* and is not the last attempt, is followed by the next attempt.
C14_NoLocalNodeIsRetried ==
    [][(/\ pc = "c_attempt"
        /\ ConnectRetry(attempt)
        /\ nextLink' > nextLink
        /\ ~links'[nextLink].localNode)
       => (pc' = "c_attempt" /\ attempt' = attempt + 1)]_vars

\* C15: one connect() call makes at most RETRY_COUNT attempts; it returns in
\* the step in which an attempt succeeds, so that attempt 1 on a healthy
\* device is the only one; it stays in the loop (and sleeps RETRY_DELAY) only
\* after a failed attempt that is not the last, moving on to the next
\* attempt; it returns when attempt RETRY_COUNT has failed; and it always
\* returns.
C15_BoundedAttempts ==
    /\ [](pc = "c_attempt" => attempt \in 1 .. RETRY_COUNT)
    /\ [][pc = "c_attempt" =>
             /\ (nextLink' > nextLink /\ links'[nextLink].handlers)
                   => (pc' # "c_attempt" /\ interface' = nextLink)
             /\ pc' = "c_attempt"
                   => (attempt < RETRY_COUNT /\ attempt' = attempt + 1)
             /\ attempt = RETRY_COUNT => pc' # "c_attempt"]_vars
    /\ (pc = "c_attempt") ~> (pc # "c_attempt")

\* The third attempt of a connect() call is under way.
C15_Witness ==
    /\ pc = "c_attempt"
    /\ attempt = RETRY_COUNT

\* C16: the result of a construction thread that ends after its attempt was
\* abandoned changes nothing: what the caller reads out of result after the
\* join of a later attempt, exception or link, is what the thread of that
\* attempt stored.
C16_LateResultIgnored ==
    pc = "c_check" => AttemptOutcome(result) = AttemptOutcome(own)

\* C17: sendText is issued only on a link with a local node.  When the
\* health check at the top of a send attempt fails, send_message calls
\* close() and then connect(), once; it goes on to sendText only if that
\* connect() succeeded, and if it failed send_message returns failure
\* with no sendText since the failed check.
C17_OneRecoveryBeforeSend ==
    /\ pc = "s_send" => (interface # 0 /\ links[interface].localNode)
    /\ (pc = "c_attempt" /\ connRet = "recover") =>
          /\ call.gapCloses = 1
          /\ call.gapConnects = 0
    /\ (pc = "s_send" /\ call.prevKind \in {"none", "generic"}) =>
          \/ call.gapCloses = 0 /\ call.gapConnects = 0
          \/ call.gapCloses = 1 /\ call.gapConnects = 1
    /\ call.reason = "recover_fail" =>
          /\ pc = "returned"
          /\ ~call.result
          /\ call.connFail
          /\ call.gapCloses = 1
          /\ call.gapConnects = 0
          /\ call.sends = 0

\* A send on a link without a local node whose recovery failed.
C17_Witness ==
    /\ pc = "returned"
    /\ call.reason = "recover_fail"
    /\ sender_closed
    /\ call.sends = 0

\* C18: a call with no_wait set returns success in the step in which
\* sendText returns a packet, never enters the wait loop, and takes nothing
\* out of the channel: while the call runs the channel only grows, by what
\* the receive threads put.
C18_NoWaitLeavesChannel ==
    /\ []((no_wait /\ pc # "idle") => ~Waiting)
    /\ [](call.reason = "no_wait" =>
             /\ pc = "returned"
             /\ call.result
             /\ call.prevKind = "none")
    /\ [][(no_wait /\ no_wait') =>
             /\ Len(packet_queue') >= Len(packet_queue)
             /\ (/\ pc = "s_send"
                 /\ call'.sends = call.sends + 1
                 /\ call'.prevKind = "none"
                 /\ call'.reason # "send_none")
                => (pc' = "returned" /\ call'.result)]_vars

\* A no_wait call returned success and a record is still in the channel.
C18_Witness ==
    /\ pc = "returned"
    /\ call.reason = "no_wait"
    /\ packet_queue # <<>>

\* C19: close() sets the closed flag before it operates on the link: from
\* its first link operation on (timer cancel or link close) the flag is set,
\* on every link close() was called on the flag is set, and a guarded
\* sendHeartbeat that runs once close() has touched the link does not reach
\* the original heartbeat send.
C19_FlagBeforeLink ==
    /\ [](closeHist.touched => sender_closed)
    /\ [](\A l \in Built : links[l].closed => sender_closed)
    /\ [][(/\ closeHist.touched
           /\ lastHb' # lastHb
           /\ \A l \in Built : links[l].patched) => ~lastHb'.original]_vars

\* In the middle of a teardown: the timer was handled, the link is not yet
\* closed.
C19_Witness ==
    /\ pc = "x_close"
    /\ closeHist.touched
    /\ ~closeHist.released
    /\ sender_closed

\* C20: close() lets no exception out and, once over, has called the link's
\* close(), whether or not the timer cancel or the link's close() raised.
C20_CloseNeverRaises ==
    /\ ~closeHist.raised
    /\ closeHist.done => (pc # "x_close" /\ closeHist.released)
    /\ (closeHist.timerErr /\ closeAt = 0) => closeHist.released

\* A close() in which both the timer cancel and the link's close() raised.
C20_Witness ==
    /\ closeHist.done
    /\ closeHist.timerErr
    /\ closeHist.linkErr
    /\ pc = "idle"
    /\ links[interface].closed

\* C22: sendText is never issued on a link on which close() was called.
C22_NoSendOnClosedLink ==
    [][call'.sends > call.sends => ~links[interface].closed]_vars

\* C26: a sendText that returns no packet ends the call: send_message
\* returns failure in that step, having dequeued nothing, with no close(),
\* no connect() and no sendText after it.
C26_NoPacketIsFailure ==
    /\ call.prevKind = "nopacket" =>
          /\ pc = "returned"
          /\ ~call.result
          /\ call.reason = "send_none"
          /\ call.gapCloses = 0
          /\ call.gapConnects = 0
          /\ call.seen = "none"
          /\ ~call.otherId
          /\ ~call.timedOut
          /\ ~call.resolver.present
    /\ call.reason = "send_none" => call.prevKind = "nopacket"

\* The retry of a send that raised returned no packet, with a record left
\* waiting in the channel.
C26_Witness ==
    /\ pc = "returned"
    /\ call.reason = "send_none"
    /\ call.sends = 2
    /\ packet_queue # <<>>

\* C27: the link-level close is called at most once on a link: when close()
\* reaches the link's close(), it has not been called on that link before.
C27_LinkClosedOnce ==
    [][(closeHist'.released /\ ~closeHist.released)
          => ~links[interface].closed]_vars

\* C21: no Exception raised by the link leaves connect(), send_message() or
\* close(): the caller never finds itself with an exception in hand, and a
\* send_message that is over has returned its boolean on one of the return
\* statements.  (Of what the construction thread stores at line 56, only a
\* BaseException that is no Exception, which is not an error of the link,
\* would pass the except clauses of connect().)
C21_NoExceptionEscapes ==
    /\ pc # "escaped"
    /\ ~closeHist.raised
    /\ pc = "returned" => call.reason # "none"

\* connect() has returned although reading the handlers of the link it
\* built raised, and a close() of that link in which the timer cancel and
\* the link's close() raised is over.
C21_Witness ==
    /\ pc = "idle"
    /\ interface # 0
    /\ links[interface].localNode
    /\ ~links[interface].handlers
    /\ closeHist.done
    /\ closeHist.timerErr
    /\ closeHist.linkErr

\* C23: every run of an interceptor calls the link's original handler
\* exactly once and lets no exception out, whatever raised on its way.
C23_OriginalCalledOnce ==
    lastRx.fired => (lastRx.origCalls = 1 /\ ~lastRx.raisedOut)

\* C24: a run of a TCP tool with channel 0 calls neither connect() nor a
\* send of the core.
C24_ChannelZeroRejected ==
    (cli.tool \in {"tcp", "haiku"} /\ cli.channel = 0 /\ cli.pc # "start")
        => (~cli.connectCalled /\ ~cli.sendCalled /\ cli.pc \in {"validate", "rejected"})

\* A TCP tool was given channel 0 and has exited on the validation.
C24_Witness ==
    cli.tool \in {"tcp", "haiku"} /\ cli.channel = 0 /\ cli.pc = "rejected"

\* C25: every channel index a tool passes to a send of the core lies in
\* 1..7.
C25_SentChannelInRange ==
    cli.chanSent => cli.sentChannel \in 1 .. 7

\* C28: once a tool is in its repeat loop, nothing but a user interrupt
\* ends the run.
C28_OnlyInterruptEndsLoop ==
    cli.looping => cli.endedBy \in {"none", "interrupt"}

\* C29: in the tools that number their messages, pass k of the repeat loop
\* (k from 0) uses sequence number k mod 1000, which lies in 0..999.
C29_SequenceIsPassMod1000 ==
    (cli.tool \in {"haiku", "mqtt"} /\ cli.looping /\ cli.iter > 0)
        => /\ cli.current_sequence = (cli.iter - 1) % 1000
           /\ cli.current_sequence \in 0 .. 999

\* Pass 1000 of the loop runs with the sequence number wrapped to 0, after
\* a pass whose send was called.
C29_Witness ==
    /\ cli.tool \in {"haiku", "mqtt"}
    /\ cli.looping
    /\ cli.iter = 1001
    /\ cli.current_sequence = 0
    /\ cli.sendCalled

\* C30: when a pass of the haiku tool's repeat loop is about to construct
\* its sender, every link constructed by the passes before it is closed.
C30_LinksClosedBeforeNextPass ==
    (cli.tool = "haiku" /\ cli.looping /\ cli.pc = "connect")
        => \A l \in Built : links[l].closed

\* C31: send_haiku calls send_message at most 3 times for one message, makes
\* no call after one that succeeded, lets no exception of send_message out,
\* goes on after a raising call exactly as after a failing one, and returns
\* success iff some call succeeded.
C31_SendHaikuBounded ==
    LET n == Len(sh.outcomes)
        someOk == \E i \in 1 .. n : sh.outcomes[i] = "ok"
    IN  /\ n <= 3
        /\ \A i \in 1 .. n : sh.outcomes[i] = "ok" => i = n
        /\ ~sh.escaped
        /\ sh.returned => (sh.ret <=> someOk)
        /\ (n > 0 /\ sh.outcomes[n] = "ok") => sh.returned
        /\ (n > 0 /\ sh.outcomes[n] # "ok") => (sh.returned <=> n = 3)

\* send_haiku returned success on its third call, after a call that raised
\* and a call that failed.
C31_Witness ==
    /\ sh.returned
    /\ sh.ret
    /\ sh.outcomes = <<"raise", "fail", "ok">>

\* C32: the history never holds more than 20 haikus nor one haiku twice; a
\* call with the empty haiku or with one already present leaves it as it
\* was; any other call appends the haiku, dropping the oldest entry, and
\* only that one, if the history held 20.
C32_HistoryBounded ==
    LET now == recent_haikus
        was == lastAdd.before
        h == lastAdd.haiku
    IN  /\ Len(now) <= 20
        /\ \A i, j \in DOMAIN now : now[i] = now[j] => i = j
        /\ lastAdd.adds > 0 =>
              IF h = 0 \/ (\E i \in DOMAIN was : was[i] = h) THEN now = was
              ELSE IF Len(was) < 20 THEN now = was \o <<h>>
              ELSE now = Tail(was) \o <<h>>

\* A 21st distinct haiku was added to a full history: the oldest entry is
\* gone and the new one is the last.
C32_Witness ==
    /\ lastAdd.adds > 0
    /\ Len(lastAdd.before) = 20
    /\ lastAdd.haiku # 0
    /\ \A i \in DOMAIN lastAdd.before : lastAdd.before[i] # lastAdd.haiku
    /\ Len(recent_haikus) = 20
    /\ recent_haikus[20] = lastAdd.haiku
    /\ recent_haikus[1] = lastAdd.before[2]

\* C33: generate_haiku makes at most llm_retries + 1 requests, llm_retries
\* taken within 0..5; every request but the last ended in a timeout or
\* connection error; after any other error no request follows; it returns
\* a haiku iff a request succeeded, and None otherwise.
C33_GenerateBounded ==
    LET n == Len(gen.outcomes)
        clamped == IF gen.arg < 0 THEN 0 ELSE IF gen.arg > 5 THEN 5 ELSE gen.arg
    IN  /\ n <= clamped + 1
        /\ \A i \in 1 .. n : i < n => gen.outcomes[i] = "transient"
        /\ (n > 0 /\ gen.outcomes[n] # "transient") => gen.returned
        /\ (n > 0 /\ gen.outcomes[n] = "transient")
              => (gen.returned <=> n = clamped + 1)
        /\ gen.returned => (gen.haiku <=> (n > 0 /\ gen.outcomes[n] = "ok"))

\* With --llm-retries 6 the sixth request times out and generate_haiku
\* returns None.
C33_Witness ==
    /\ gen.arg = 6
    /\ Len(gen.outcomes) = 6
    /\ gen.outcomes[6] = "transient"
    /\ gen.returned
    /\ ~gen.haiku

\* C34 as stated: what validate_and_clean_haiku returns is not empty, holds
\* only letters, digits, spaces and the characters . , ; with no two spaces
\* in a row and no space first or last; for an empty argument, and for one
\* with nothing but whitespace and characters that are dropped or turned
\* into spaces, it is the fallback text.
C34_Original ==
    haiku_out.done =>
        LET out == haiku_out.value
            n == Len(out)
        IN  /\ n > 0
            /\ \A i \in 1 .. n : out[i] \in {"a", "1", " ", ".", ",", ";"}
            /\ out[1] # " "
            /\ out[n] # " "
            /\ \A i \in 1 .. n - 1 : ~(out[i] = " " /\ out[i + 1] = " ")
            /\ (\A i \in DOMAIN haiku_in : haiku_in[i] \in {" ", "tab", "(", "@"})
                  => out = Fallback

\* C34, amended: the same, with every character for which str.isalnum()
\* holds allowed in what is returned: letters, digits and the other numeric
\* characters.
C34_CleanOutput ==
    haiku_out.done =>
        LET out == haiku_out.value
            n == Len(out)
        IN  /\ n > 0
            /\ \A i \in 1 .. n : out[i] \in {"a", "1", "half", " ", ".", ",", ";"}
            /\ out[1] # " "
            /\ out[n] # " "
            /\ \A i \in 1 .. n - 1 : ~(out[i] = " " /\ out[i + 1] = " ")
            /\ (\A i \in DOMAIN haiku_in : haiku_in[i] \in {" ", "tab", "(", "@"})
                  => out = Fallback

\* An argument with a tab and another special character between a fraction
\* character and a letter comes back as the two with one space between.
C34_Witness ==
    /\ haiku_out.done
    /\ haiku_in = <<"half", "tab", "@", "a">>
    /\ haiku_out.value = <<"half", " ", "a">>

C36_ConfirmedStaysLocal ==
    tracked.confirmed =>
        /\ HasEntry(signal_stats, Watched)
        /\ signal_stats[EntryAt(signal_stats, Watched)].is_local

\* C37: when close() has returned, the sender holds no client and the
\* network loop of the client it held when close() was called is not
\* running, whatever the connection state was.
C37_CloseStopsLoop ==
    mq.op = "close" => mq.client = 0 /\ mq.closing \notin mq.loops

\* C38: with reconnection enabled the listener does not end, other than by
\* Ctrl+C, while a caught connection error has not been followed by a new
\* entry of connect_with_retry, and every connection attempt starts with
\* no interface and every interface built so far closed; with --no-reconnect
\* at most one interface is constructed and the first caught connection
\* error ends the listener.
C38_ErrorThenReconnect ==
    /\ (~lp.no_reconnect /\ lp.pc = "done" /\ lp.endedBy # "interrupt")
          => lp.retried = lp.handled
    /\ (~lp.no_reconnect /\ lp.pc = "connect")
          => lp.interface = 0 /\ lp.closed = 1 .. lp.built
    /\ lp.no_reconnect
          => lp.built <= 1 /\ (lp.handled >= 1 => lp.pc = "done")

====
